---- MODULE Spec2Model ----
(***************************************************************************)
(* Live-monitoring event-correlation layer of the financial crew demo      *)
(* (src/streamlit_app.py): the session state, the event queue, and the     *)
(* registry-update functions _process_event, _update_task_registry,        *)
(* _update_agent_registry, _update_tool_usage, _merge_agent_output and     *)
(* _progress_fraction.                                                     *)
(*                                                                         *)
(* Python values are tagged tuples so that isinstance() and truthiness can *)
(* be decided: None, Str(chars), Num(n), Dict(items).  A Python str is a   *)
(* sequence of one-character strings, so strip(), casefold(), `in`, join   *)
(* and the JSON round trip are computed character by character.            *)
(* An insertion-ordered Python dict that the code iterates over is a       *)
(* sequence of [k, v] pairs; the event payload (a dict the code only reads *)
(* by key) is a function from its present keys to their values.            *)
(***************************************************************************)
EXTENDS Integers, Sequences, FiniteSets, TLC

(***************************************************************************)
(* Python values                                                           *)
(***************************************************************************)
None == <<"None">>
Str(s) == <<"str", s>>
Num(n) == <<"int", n>>
Dict(items) == <<"dict", items>>

IsNone(v) == v[1] = "None"
IsStr(v) == v[1] = "str"
IsNum(v) == v[1] = "int"
IsDict(v) == v[1] = "dict"

\* bool(v): None, "", 0 and {} are falsy.
Truthy(v) ==
    CASE IsNone(v) -> FALSE
      [] IsStr(v) -> v[2] # <<>>
      [] IsNum(v) -> v[2] # 0
      [] OTHER -> v[2] # <<>>

\* a or b
Or(a, b) == IF Truthy(a) THEN a ELSE b

\* d.get(k) on an event payload
Get(d, k) == IF k \in DOMAIN d THEN d[k] ELSE None

(***************************************************************************)
(* str methods                                                             *)
(***************************************************************************)
UpperChars == <<"A","B","C","D","E","F","G","H","I","J","K","L","M",
                "N","O","P","Q","R","S","T","U","V","W","X","Y","Z">>
LowerChars == <<"a","b","c","d","e","f","g","h","i","j","k","l","m",
                "n","o","p","q","r","s","t","u","v","w","x","y","z">>
DigitChars == <<"0","1","2","3","4","5","6","7","8","9">>

IsSpace(c) == c \in {" ", "\t", "\n", "\r"}

FoldChar(c) ==
    IF \E i \in DOMAIN UpperChars : UpperChars[i] = c
    THEN LowerChars[CHOOSE i \in DOMAIN UpperChars : UpperChars[i] = c]
    ELSE c

RECURSIVE lstrip(_)
lstrip(s) == IF s # <<>> /\ IsSpace(Head(s)) THEN lstrip(Tail(s)) ELSE s

RECURSIVE rstrip(_)
rstrip(s) ==
    IF s # <<>> /\ IsSpace(s[Len(s)]) THEN rstrip(SubSeq(s, 1, Len(s) - 1)) ELSE s

\* s.strip()
strip(s) == rstrip(lstrip(s))

\* s.casefold() (ASCII)
casefold(s) == [i \in 1..Len(s) |-> FoldChar(s[i])]

\* needle in hay
Contains(hay, needle) ==
    \E i \in 0..(Len(hay) - Len(needle)) : SubSeq(hay, i + 1, i + Len(needle)) = needle

\* v.strip() of a Str value
StripV(v) == Str(strip(v[2]))

\* isinstance(v, str) and v.strip()
IsNonBlankStr(v) == IsStr(v) /\ strip(v[2]) # <<>>

\* str(n) for n >= 0
RECURSIVE IntToChars(_)
IntToChars(n) ==
    IF n < 10 THEN <<DigitChars[n + 1]>>
    ELSE IntToChars(n \div 10) \o <<DigitChars[(n % 10) + 1]>>

IsDigit(c) == \E i \in DOMAIN DigitChars : DigitChars[i] = c
DigitVal(c) == (CHOOSE i \in DOMAIN DigitChars : DigitChars[i] = c) - 1

\* str(v) of a value (the f-string and str() conversions)
ToChars(v) ==
    CASE IsStr(v) -> v[2]
      [] IsNum(v) -> IntToChars(v[2])
      [] IsNone(v) -> <<"N","o","n","e">>
      [] OTHER -> <<"{","}">>

(***************************************************************************)
(* Insertion-ordered dicts: sequences of [k, v]                            *)
(***************************************************************************)
DHas(d, k) == \E i \in DOMAIN d : d[i].k = k
DIndex(d, k) == CHOOSE i \in DOMAIN d : d[i].k = k
DGet(d, k) == d[DIndex(d, k)].v
\* d[k] = v : in place when k is present, appended otherwise
DSet(d, k, v) ==
    IF DHas(d, k) THEN [d EXCEPT ![DIndex(d, k)] = [k |-> k, v |-> v]]
    ELSE Append(d, [k |-> k, v |-> v])
DKeys(d) == {d[i].k : i \in DOMAIN d}

\* an unordered dict (a function) with d[k] = v
FSet(f, k, v) == [x \in (DOMAIN f) \cup {k} |-> IF x = k THEN v ELSE f[x]]
FDel(f, k) == [x \in (DOMAIN f) \ {k} |-> f[x]]
FGet(f, k) == IF k \in DOMAIN f THEN f[k] ELSE None

(***************************************************************************)
(* json.loads / json.dumps on the JSON subset the tool arguments use:      *)
(* integers, strings without escapes, and objects of these.                *)
(***************************************************************************)
\* code-point order of the characters that occur in object keys
AsciiChars == <<" ", "\"", "+", ",", "-", "0","1","2","3","4","5","6","7","8","9", ":">>
               \o UpperChars \o <<"_">> \o LowerChars \o <<"{", "}">>
Ord(c) == CHOOSE i \in DOMAIN AsciiChars : AsciiChars[i] = c

\* a < b for two str keys
RECURSIVE StrLess(_, _)
StrLess(a, b) ==
    IF b = <<>> THEN FALSE
    ELSE IF a = <<>> THEN TRUE
    ELSE IF Head(a) = Head(b) THEN StrLess(Tail(a), Tail(b))
    ELSE Ord(Head(a)) < Ord(Head(b))

JsonFail == [ok |-> FALSE, val |-> None, rest |-> <<>>]

\* digits of a JSON integer: "0" alone, or a run of digits not starting with 0
RECURSIVE DigitRun(_)
DigitRun(s) == IF s # <<>> /\ IsDigit(Head(s)) THEN <<Head(s)>> \o DigitRun(Tail(s)) ELSE <<>>

RECURSIVE CharsToInt(_)
CharsToInt(s) ==
    IF s = <<>> THEN 0 ELSE CharsToInt(SubSeq(s, 1, Len(s) - 1)) * 10 + DigitVal(s[Len(s)])

ParseInt(s) ==
    LET run == IF Head(s) = "0" THEN <<"0">> ELSE DigitRun(s)
    IN  [ok |-> TRUE, val |-> Num(CharsToInt(run)), rest |-> SubSeq(s, Len(run) + 1, Len(s))]

\* the characters up to the closing quote
RECURSIVE UntilQuote(_)
UntilQuote(s) == IF s = <<>> \/ Head(s) = "\"" THEN <<>> ELSE <<Head(s)>> \o UntilQuote(Tail(s))

\* s starts with a quote
ParseString(s) ==
    LET body == UntilQuote(Tail(s))
    IN  IF Len(body) + 2 > Len(s) THEN JsonFail
        ELSE [ok |-> TRUE, val |-> Str(body), rest |-> SubSeq(s, Len(body) + 3, Len(s))]

\* dict[k] = v on the items of a Dict value (a repeated key keeps its place)
ItemSet(items, k, v) ==
    IF \E i \in DOMAIN items : items[i][1] = k
    THEN [items EXCEPT ![CHOOSE i \in DOMAIN items : items[i][1] = k] = <<k, v>>]
    ELSE Append(items, <<k, v>>)

RECURSIVE ParseValue(_)
RECURSIVE ParseMembers(_, _)
\* after "{" or ",": "key" : value, then "," or "}"
ParseMembers(s0, items) ==
    LET s == lstrip(s0)
    IN  IF s = <<>> \/ Head(s) # "\"" THEN JsonFail
        ELSE LET key == ParseString(s)
                 s1 == lstrip(key.rest)
             IN  IF ~key.ok \/ s1 = <<>> \/ Head(s1) # ":" THEN JsonFail
                 ELSE LET val == ParseValue(Tail(s1))
                          s2 == lstrip(val.rest)
                          items2 == ItemSet(items, key.val[2], val.val)
                      IN  IF ~val.ok \/ s2 = <<>> THEN JsonFail
                          ELSE IF Head(s2) = "}"
                               THEN [ok |-> TRUE, val |-> Dict(items2), rest |-> Tail(s2)]
                          ELSE IF Head(s2) = "," THEN ParseMembers(Tail(s2), items2)
                          ELSE JsonFail

ParseValue(s0) ==
    LET s == lstrip(s0)
    IN  IF s = <<>> THEN JsonFail
        ELSE IF IsDigit(Head(s)) THEN ParseInt(s)
        ELSE IF Head(s) = "\"" THEN ParseString(s)
        ELSE IF Head(s) = "{"
             THEN LET s1 == lstrip(Tail(s))
                  IN  IF s1 # <<>> /\ Head(s1) = "}"
                      THEN [ok |-> TRUE, val |-> Dict(<<>>), rest |-> Tail(s1)]
                      ELSE ParseMembers(s1, <<>>)
        ELSE JsonFail

\* json.loads(s): ok is FALSE where json raises JSONDecodeError
json_loads(s) ==
    LET r == ParseValue(s)
    IN  IF r.ok /\ lstrip(r.rest) = <<>> THEN r ELSE JsonFail

\* the items with the smallest key first (sort_keys=True)
RECURSIVE SortItems(_)
SortItems(items) ==
    IF items = <<>> THEN <<>>
    ELSE LET m == CHOOSE i \in DOMAIN items :
                      \A j \in DOMAIN items : j = i \/ StrLess(items[i][1], items[j][1])
             rest == [j \in 1..(Len(items) - 1) |-> IF j < m THEN items[j] ELSE items[j + 1]]
         IN  <<items[m]>> \o SortItems(rest)

RECURSIVE json_dumps(_)
RECURSIVE DumpItems(_)
DumpItems(items) ==
    IF items = <<>> THEN <<>>
    ELSE <<"\"">> \o items[1][1] \o <<"\"", ":", " ">> \o json_dumps(items[1][2])
         \o (IF Len(items) > 1 THEN <<",", " ">> ELSE <<>>) \o DumpItems(Tail(items))

\* json.dumps(v, sort_keys=True, default=str)
json_dumps(v) ==
    CASE IsNum(v) -> IntToChars(v[2])
      [] IsStr(v) -> <<"\"">> \o v[2] \o <<"\"">>
      [] IsNone(v) -> <<"n","u","l","l">>
      [] OTHER -> <<"{">> \o DumpItems(SortItems(v[2])) \o <<"}">>

\* _normalise_tool_args without the json.loads of a str argument
_normalise_tool_args_unparsed(args) ==
    IF IsNone(args) THEN Str(<<>>)
    ELSE IF IsStr(args) THEN Str(strip(args[2]))
    ELSE Str(json_dumps(args))

\* the canonical text without the trimming of line 175
_normalise_tool_args_untrimmed(args) ==
    IF IsNone(args) THEN Str(<<>>)
    ELSE IF IsStr(args)
         THEN LET parsed == json_loads(strip(args[2]))
              IN  IF ~parsed.ok THEN Str(args[2])
                  ELSE Str(json_dumps(parsed.val))
    ELSE Str(json_dumps(args))

\* _normalise_tool_args: the canonical text of a tool's arguments
_normalise_tool_args(args) ==
    IF IsNone(args) THEN Str(<<>>)
    ELSE IF IsStr(args)
         THEN LET stripped == strip(args[2])
                  parsed == json_loads(stripped)
              IN  IF stripped = <<>> THEN Str(<<>>)
                  ELSE IF ~parsed.ok THEN Str(stripped)
                  ELSE Str(json_dumps(parsed.val))
    ELSE Str(json_dumps(args))

\* _tool_signature: (agent_identifier, attempt_repr, args_repr)
_tool_signature(event_data) ==
    LET ids == <<Get(event_data, "agent_id"), Get(event_data, "agent_key"),
                 Get(event_data, "source_fingerprint")>>
        found == {i \in DOMAIN ids : IsStr(ids[i]) /\ Truthy(ids[i])}
        agent_identifier ==
            IF found = {} THEN Str(<<>>)
            ELSE ids[CHOOSE i \in found : \A j \in found : i <= j]
        args_repr == _normalise_tool_args(Get(event_data, "tool_args"))
        run_attempts == Get(event_data, "run_attempts")
        attempt_repr ==
            IF run_attempts \in {None, Str(<<>>), Num(0)} THEN Str(<<"1">>)
            ELSE Str(ToChars(run_attempts))
    IN  <<agent_identifier, attempt_repr, args_repr>>

(***************************************************************************)
(* _normalise_alias, _merge_agent_output, _serialise_agent_output          *)
(***************************************************************************)
\* _normalise_alias: trimmed, case-folded text, or None
_normalise_alias(value) ==
    IF IsStr(value) /\ strip(value[2]) # <<>> THEN Str(casefold(strip(value[2]))) ELSE None

\* "\n\n".join(fragment for fragment in fragments if fragment)
RECURSIVE JoinFragments(_)
JoinFragments(fragments) ==
    IF fragments = <<>> THEN <<>>
    ELSE LET rest == SelectSeq(Tail(fragments), Truthy)
         IN  IF ~Truthy(Head(fragments)) THEN JoinFragments(rest)
             ELSE Head(fragments)[2]
                  \o (IF rest = <<>> THEN <<>> ELSE <<"\n", "\n">> \o JoinFragments(rest))

\* _serialise_agent_output: the visible output of a fragment list
_serialise_agent_output(fragments) ==
    IF \A i \in DOMAIN fragments : IsStr(fragments[i])
    THEN Str(JoinFragments(fragments))
    ELSE fragments[Len(fragments)]

\* _merge_agent_output without the subset and superset tests: every fragment is appended
_merge_agent_output_appending(entry, new_output) ==
    IF new_output \in {None, Str(<<>>)} THEN entry
    ELSE [entry EXCEPT
             !.output_fragments = Append(@, new_output),
             !.output = _serialise_agent_output(Append(entry.output_fragments, new_output))]

\* _merge_agent_output without the subset test of lines 65-67
_merge_agent_output_without_subset_test(entry, new_output) ==
    IF new_output \in {None, Str(<<>>)} THEN entry
    ELSE LET fragments == entry.output_fragments
             last_fragment == fragments[Len(fragments)]
             same == [entry EXCEPT !.output = _serialise_agent_output(fragments)]
             replaced == [fragments EXCEPT ![Len(fragments)] = new_output]
             appended == Append(fragments, new_output)
         IN  IF fragments # <<>> /\ last_fragment = new_output THEN same
             ELSE IF fragments # <<>> /\ IsStr(last_fragment) /\ IsStr(new_output)
                     /\ strip(last_fragment[2]) # <<>>
                     /\ Contains(new_output[2], strip(last_fragment[2]))
                  THEN [entry EXCEPT !.output_fragments = replaced,
                                     !.output = _serialise_agent_output(replaced)]
             ELSE [entry EXCEPT !.output_fragments = appended,
                                !.output = _serialise_agent_output(appended)]

\* _merge_agent_output: the entry after merging new_output into its fragments
_merge_agent_output(entry, new_output) ==
    IF new_output \in {None, Str(<<>>)} THEN entry
    ELSE LET fragments == entry.output_fragments
             last_fragment == fragments[Len(fragments)]
             same == [entry EXCEPT !.output = _serialise_agent_output(fragments)]
             replaced == [fragments EXCEPT ![Len(fragments)] = new_output]
             appended == Append(fragments, new_output)
         IN  IF fragments # <<>> /\ last_fragment = new_output THEN same
             ELSE IF fragments # <<>> /\ IsStr(last_fragment) /\ IsStr(new_output)
                     /\ strip(new_output[2]) # <<>>
                     /\ Contains(last_fragment[2], strip(new_output[2]))
                  THEN same
             ELSE IF fragments # <<>> /\ IsStr(last_fragment) /\ IsStr(new_output)
                     /\ strip(last_fragment[2]) # <<>>
                     /\ Contains(new_output[2], strip(last_fragment[2]))
                  THEN [entry EXCEPT !.output_fragments = replaced,
                                     !.output = _serialise_agent_output(replaced)]
             ELSE [entry EXCEPT !.output_fragments = appended,
                                !.output = _serialise_agent_output(appended)]

(***************************************************************************)
(* Event kinds                                                             *)
(***************************************************************************)
\* event_type.startswith("task:"), ("agent:") and ("tool:") over the kinds of
\* record the listener emits
\* a test of line 411 that takes run:failed for a task event as well
TaskTypes_with_run_failed == {"task:started", "task:completed", "task:failed", "run:failed"}
\* a test of line 411 that does not take task:completed for a task event
TaskTypes_without_completed == {"task:started", "task:failed"}

TaskTypes == {"task:started", "task:completed", "task:failed"}
AgentTypes == {"agent:started", "agent:completed", "agent:error"}
ToolTypes == {"tool:started", "tool:finished", "tool:error"}

\* the first index of a non-empty set of indices (the first match of a for loop)
First(S) == CHOOSE i \in S : \A j \in S : i <= j

\* [value.strip() for value in values if isinstance(value, str) and value.strip()]
RECURSIVE StrippedCandidates(_)
StrippedCandidates(values) ==
    IF values = <<>> THEN <<>>
    ELSE (IF IsNonBlankStr(Head(values)) THEN <<StripV(Head(values))>> ELSE <<>>)
         \o StrippedCandidates(Tail(values))

\* {k: v for k, v in event_data.items() if k not in {"timestamp", "output"}}
Summary(event_data) ==
    [k \in (DOMAIN event_data) \ {"timestamp", "output"} |-> event_data[k]]

HistoryEntry(event_type, event_data) ==
    [type |-> event_type, timestamp |-> Get(event_data, "timestamp"),
     summary |-> Summary(event_data)]

\* uuid.uuid4(): the n-th value drawn, different from every other string
Uuid(n) == Str(<<"#">> \o IntToChars(n))

(***************************************************************************)
(* _update_task_registry                                                   *)
(***************************************************************************)
\* the task_id an event resolves to (None: the early return of line 412);
\* fresh is the uuid drawn when line 418 is reached
ResolveTask(tasks, alias_map, fresh, event_type, event_data) ==
    LET identifier_aliases == <<Get(event_data, "task_id"), Get(event_data, "id")>>
        name_aliases == <<Get(event_data, "name"), Get(event_data, "task_name")>>
        alias_candidates == StrippedCandidates(identifier_aliases \o name_aliases)
        hits == {i \in DOMAIN alias_candidates :
                    _normalise_alias(alias_candidates[i]) \in DOMAIN alias_map}
        ids == {i \in DOMAIN identifier_aliases : IsNonBlankStr(identifier_aliases[i])}
        normalised_names == {_normalise_alias(name_aliases[i]) :
                                i \in {j \in DOMAIN name_aliases : IsNonBlankStr(name_aliases[j])}}
        name_hits == {i \in DOMAIN tasks :
                        /\ IsStr(tasks[i].v.name) /\ Truthy(tasks[i].v.name)
                        /\ _normalise_alias(tasks[i].v.name) # None
                        /\ _normalise_alias(tasks[i].v.name) \in normalised_names}
    IN  IF hits # {} THEN alias_map[_normalise_alias(alias_candidates[First(hits)])]
        ELSE IF ids # {} THEN StripV(identifier_aliases[First(ids)])
        ELSE IF name_hits # {} THEN tasks[First(name_hits)].k
        ELSE IF alias_candidates = <<>> /\ event_type \notin TaskTypes THEN None
        ELSE IF alias_candidates # <<>> THEN alias_candidates[1]
        ELSE fresh

\* alias_map after lines 420-423
RECURSIVE RegisterAliases(_, _, _)
RegisterAliases(alias_map, alias_candidates, target) ==
    IF alias_candidates = <<>> THEN alias_map
    ELSE RegisterAliases(
             IF _normalise_alias(Head(alias_candidates)) # None
             THEN FSet(alias_map, _normalise_alias(Head(alias_candidates)), target)
             ELSE alias_map,
             Tail(alias_candidates), target)

\* a status_lookup that also holds the agent:started row of agent_status_lookup
TaskStatusLookup_with_agent_started(event_type) ==
    CASE event_type \in {"task:started", "agent:started"} -> "running"
      [] event_type = "task:completed" -> "completed"
      [] event_type = "task:failed" -> "failed"
      [] OTHER -> "none"

TaskStatusLookup(event_type) ==
    CASE event_type = "task:started" -> "running"
      [] event_type = "task:completed" -> "completed"
      [] event_type = "task:failed" -> "failed"
      [] OTHER -> "none"

\* the TaskEntry of lines 425-461 with line 437 storing the event's own task_id
\* field in place of the resolved one
UpdatedTaskEntry_raw_id(tasks, task_id, event_type, event_data) ==
    LET preferred_name == Or(Or(Get(event_data, "name"), Get(event_data, "task_name")),
                             Get(event_data, "description"))
        created == [task_id |-> task_id,
                    name |-> Or(preferred_name, task_id),
                    status |-> "pending",
                    history |-> <<>>,
                    agents |-> <<>>,
                    first_seen |-> Get(event_data, "timestamp"),
                    last_event |-> "none",
                    last_updated |-> None]
        entry == IF DHas(tasks, task_id) THEN DGet(tasks, task_id) ELSE created
    IN  [entry EXCEPT
            !.task_id = Or(Get(event_data, "task_id"), task_id),
            !.name = IF Truthy(preferred_name) THEN preferred_name ELSE @,
            !.status = IF TaskStatusLookup(event_type) # "none"
                       THEN TaskStatusLookup(event_type) ELSE @,
            !.last_event = event_type,
            !.last_updated = Get(event_data, "timestamp"),
            !.history = Append(@, HistoryEntry(event_type, event_data))]

\* the TaskEntry after lines 425-461
UpdatedTaskEntry(tasks, task_id, event_type, event_data) ==
    LET preferred_name == Or(Or(Get(event_data, "name"), Get(event_data, "task_name")),
                             Get(event_data, "description"))
        created == [task_id |-> task_id,
                    name |-> Or(preferred_name, task_id),
                    status |-> "pending",
                    history |-> <<>>,
                    agents |-> <<>>,
                    first_seen |-> Get(event_data, "timestamp"),
                    last_event |-> "none",
                    last_updated |-> None]
        entry == IF DHas(tasks, task_id) THEN DGet(tasks, task_id) ELSE created
    IN  [entry EXCEPT
            !.task_id = task_id,
            !.name = IF Truthy(preferred_name) THEN preferred_name ELSE @,
            !.status = IF TaskStatusLookup(event_type) # "none"
                       THEN TaskStatusLookup(event_type) ELSE @,
            !.last_event = event_type,
            !.last_updated = Get(event_data, "timestamp"),
            !.history = Append(@, HistoryEntry(event_type, event_data))]

TaskAliasCandidates(event_data) ==
    StrippedCandidates(<<Get(event_data, "task_id"), Get(event_data, "id"),
                         Get(event_data, "name"), Get(event_data, "task_name")>>)

\* lines 411-463 once the task_id is known
StoreTaskEvent(tasks, alias_map, uuid_n, event_type, event_data, task_id) ==
    IF task_id = None
    THEN [tasks |-> tasks, alias_map |-> alias_map, uuid_n |-> uuid_n, task_id |-> None]
    ELSE [tasks |-> DSet(tasks, task_id,
                         UpdatedTaskEntry(tasks, task_id, event_type, event_data)),
          alias_map |-> RegisterAliases(alias_map, TaskAliasCandidates(event_data), task_id),
          uuid_n |-> IF task_id = Uuid(uuid_n + 1) THEN uuid_n + 1 ELSE uuid_n,
          task_id |-> task_id]

\* _update_task_registry: the registry, the alias map and the number of uuids
\* drawn after the call, and the task_id it returns (None with no entry)
_update_task_registry(tasks, alias_map, uuid_n, event_type, event_data) ==
    StoreTaskEvent(tasks, alias_map, uuid_n, event_type, event_data,
                   ResolveTask(tasks, alias_map, Uuid(uuid_n + 1), event_type, event_data))

(***************************************************************************)
(* _update_tool_usage                                                      *)
(***************************************************************************)
\* _find_matching_tool_entry: the index in tools of the entry found, 0 for (None, None)
_find_matching_tool_entry(tools, signature, event_data) ==
    LET name == Or(Get(event_data, "tool_name"), Str(<<>>))
        by_signature == {i \in DOMAIN tools : tools[i].v.signature = signature}
        by_name == {i \in DOMAIN tools :
                       /\ tools[i].v.name = name
                       /\ tools[i].v.status \in {"pending", "running"}}
        by_args == {i \in DOMAIN tools :
                       /\ tools[i].v.agent_identifier = signature[1]
                       /\ tools[i].v.args_repr = signature[3]
                       /\ tools[i].v.status \in {"pending", "running"}}
    IN  IF by_signature # {} THEN First(by_signature)
        ELSE IF by_name # {} THEN First(by_name)
        ELSE IF by_args # {} THEN First(by_args)
        ELSE 0

\* f"tool-{n}"
ToolKey(n) == Str(<<"t", "o", "o", "l", "-">> \o IntToChars(n))

ToolStatusLookup(event_type) ==
    CASE event_type = "tool:started" -> "running"
      [] event_type = "tool:finished" -> "completed"
      [] event_type = "tool:error" -> "failed"
      [] OTHER -> "none"

\* lines 619-623: the index in tools of the entry the event continues, 0 for none
FindToolEntry(tools, active_map, signature, event_data) ==
    LET active_key == FGet(active_map, signature)
    IN  IF Truthy(active_key) /\ DHas(tools, active_key)
        THEN DIndex(tools, active_key)
        ELSE _find_matching_tool_entry(tools, signature, event_data)

\* the name a tool event gives its entry; current is kept when it gives none
ToolName(event_type, event_data, current) ==
    IF Truthy(Get(event_data, "tool_name")) THEN Get(event_data, "tool_name")
    ELSE IF Truthy(Get(event_data, "tool_class")) /\ event_type = "tool:started"
         THEN Str(ToChars(Get(event_data, "tool_class")))
         ELSE current

\* the ToolEntry of lines 628-650
NewToolEntry(tool_key, signature, event_type, event_data) ==
    [key |-> tool_key,
     signature |-> signature,
     name |-> ToolName(event_type, event_data, Str(<<"T", "o", "o", "l">>)),
     status |-> "pending",
     started_at |-> Get(event_data, "timestamp"),
     completed_at |-> None,
     output |-> None,
     error |-> None,
     first_seen |-> Get(event_data, "timestamp"),
     history |-> <<>>,
     agent_identifier |-> signature[1],
     args_repr |-> signature[3],
     run_attempt |-> signature[2],
     last_event |-> "none",
     last_updated |-> None]

\* the ToolEntry after lines 669-708
UpdatedToolEntry(tool_entry, signature, event_type, event_data) ==
    [tool_entry EXCEPT
        !.signature = signature,
        !.agent_identifier = signature[1],
        !.args_repr = signature[3],
        !.run_attempt = signature[2],
        !.name = ToolName(event_type, event_data, @),
        !.started_at = IF event_type = "tool:started"
                       THEN Get(event_data, "timestamp") ELSE @,
        !.status = IF ToolStatusLookup(event_type) # "none"
                   THEN ToolStatusLookup(event_type) ELSE @,
        !.output = IF event_type = "tool:finished" /\ Get(event_data, "output") # None
                   THEN Get(event_data, "output") ELSE @,
        !.error = IF event_type = "tool:error" /\ Get(event_data, "error") # None
                  THEN Get(event_data, "error") ELSE @,
        !.completed_at =
            IF \/ event_type = "tool:finished" /\ Get(event_data, "output") # None
               \/ event_type = "tool:error" /\ Get(event_data, "error") # None
            THEN Get(event_data, "timestamp") ELSE @,
        !.last_event = event_type,
        !.last_updated = Get(event_data, "timestamp"),
        !.history = Append(@, HistoryEntry(event_type, event_data))]

\* tool_active_map after lines 666-667 and 710-711
UpdatedActiveMap(active_map, signature, tool_key, event_type) ==
    IF event_type = "tool:started" THEN FSet(active_map, signature, tool_key)
    ELSE IF event_type \in {"tool:finished", "tool:error"} THEN FDel(active_map, signature)
    ELSE active_map

\* lines 625-711 for an event that continues the entry at index found
ContinueToolEntry(agent_entry, event_type, event_data, signature, found) ==
    [agent_entry EXCEPT
        !.tools = [@ EXCEPT ![found].v =
                      UpdatedToolEntry(@, signature, event_type, event_data)],
        !.tool_active_map = UpdatedActiveMap(@, signature, agent_entry.tools[found].v.key,
                                             event_type)]

\* the allocation without the increment of line 626
AllocateToolEntry_without_increment(agent_entry, event_type, event_data, signature, n) ==
    [agent_entry EXCEPT
        !.tools = DSet(@, ToolKey(n),
                       UpdatedToolEntry(
                           IF DHas(@, ToolKey(n)) THEN DGet(@, ToolKey(n))
                           ELSE NewToolEntry(ToolKey(n), signature, event_type, event_data),
                           signature, event_type, event_data)),
        !.tool_active_map = UpdatedActiveMap(@, signature, ToolKey(n), event_type)]

\* lines 625-711 for an event that starts the invocation numbered n
AllocateToolEntry(agent_entry, event_type, event_data, signature, n) ==
    [agent_entry EXCEPT
        !.tool_sequence = n,
        !.tools = DSet(@, ToolKey(n),
                       UpdatedToolEntry(
                           IF DHas(@, ToolKey(n)) THEN DGet(@, ToolKey(n))
                           ELSE NewToolEntry(ToolKey(n), signature, event_type, event_data),
                           signature, event_type, event_data)),
        !.tool_active_map = UpdatedActiveMap(@, signature, ToolKey(n), event_type)]

ApplyToolEvent(agent_entry, event_type, event_data, signature, found) ==
    IF found = 0
    THEN AllocateToolEntry(agent_entry, event_type, event_data, signature,
                           agent_entry.tool_sequence + 1)
    ELSE ContinueToolEntry(agent_entry, event_type, event_data, signature, found)

CorrelateToolEvent(agent_entry, event_type, event_data, signature) ==
    ApplyToolEvent(agent_entry, event_type, event_data, signature,
                   FindToolEntry(agent_entry.tools, agent_entry.tool_active_map,
                                 signature, event_data))

\* _update_tool_usage: the AgentEntry after a tool event was applied to it
_update_tool_usage(agent_entry, event_type, event_data) ==
    CorrelateToolEvent(agent_entry, event_type, event_data, _tool_signature(event_data))

(***************************************************************************)
(* _update_agent_registry                                                  *)
(***************************************************************************)
AgentAliasFields == <<"source_fingerprint", "agent_id", "agent_key", "agent_role">>

\* _build_agent_run_key; fresh is the uuid drawn when line 609 is reached
_build_agent_run_key(task_id, event_data, fresh) ==
    LET candidates == [i \in DOMAIN AgentAliasFields |-> Get(event_data, AgentAliasFields[i])]
        usable == {i \in DOMAIN candidates : IsStr(candidates[i]) /\ Truthy(candidates[i])}
        fallback == Get(event_data, "timestamp")
        suffix == IF usable # {} THEN candidates[First(usable)][2]
                  ELSE IF IsStr(fallback) /\ Truthy(fallback) THEN fallback[2]
                  ELSE fresh[2]
    IN  Str(ToChars(task_id) \o <<":">> \o suffix)

AgentStatusLookup(event_type) ==
    CASE event_type = "agent:started" -> "running"
      [] event_type = "agent:completed" -> "completed"
      [] event_type = "agent:error" -> "failed"
      [] OTHER -> "none"

\* [value.strip() for the four agent alias fields]
AgentAliasCandidates(event_data) ==
    StrippedCandidates([i \in DOMAIN AgentAliasFields |-> Get(event_data, AgentAliasFields[i])])

\* lines 508-519: the event names the entry by agent_id, fingerprint or role
AgentFieldMatches(entry, event_data) ==
    \E field \in {"agent_id", "source_fingerprint", "agent_role"} :
        Truthy(Get(event_data, field)) /\ entry[field] = Get(event_data, field)

\* the resolution whose fallback to the task's only AgentEntry is taken by
\* events that name no agent only
ResolveAgent_anonymous_fallback(registry, task_aliases, task_id, event_data, fresh) ==
    LET alias_candidates == AgentAliasCandidates(event_data)
        alias_hits == {i \in DOMAIN alias_candidates :
                          LET candidate_key == FGet(task_aliases,
                                                    _normalise_alias(alias_candidates[i]))
                          IN  Truthy(candidate_key) /\ DHas(registry, candidate_key)}
        scan_hits == {i \in DOMAIN registry :
                         /\ registry[i].v.task_id = task_id
                         /\ AgentFieldMatches(registry[i].v, event_data)}
        task_candidates == {i \in DOMAIN registry : registry[i].v.task_id = task_id}
    IN  IF alias_hits # {}
        THEN task_aliases[_normalise_alias(alias_candidates[First(alias_hits)])]
        ELSE IF scan_hits # {} THEN registry[First(scan_hits)].k
        ELSE IF Cardinality(task_candidates) = 1
                /\ Truthy(registry[First(task_candidates)].v.run_key)
                /\ alias_candidates = <<>>
             THEN registry[First(task_candidates)].v.run_key
        ELSE _build_agent_run_key(task_id, event_data, fresh)

\* lines 494-531 without the single-entry fallback of lines 521-528
ResolveAgent_without_fallback(registry, task_aliases, task_id, event_data, fresh) ==
    LET alias_candidates == AgentAliasCandidates(event_data)
        alias_hits == {i \in DOMAIN alias_candidates :
                          LET candidate_key == FGet(task_aliases,
                                                    _normalise_alias(alias_candidates[i]))
                          IN  Truthy(candidate_key) /\ DHas(registry, candidate_key)}
        scan_hits == {i \in DOMAIN registry :
                         /\ registry[i].v.task_id = task_id
                         /\ AgentFieldMatches(registry[i].v, event_data)}
    IN  IF alias_hits # {}
        THEN task_aliases[_normalise_alias(alias_candidates[First(alias_hits)])]
        ELSE IF scan_hits # {} THEN registry[First(scan_hits)].k
        ELSE _build_agent_run_key(task_id, event_data, fresh)

\* the run_key of the AgentEntry an event resolves to within task_id (lines 494-531)
ResolveAgent(registry, task_aliases, task_id, event_data, fresh) ==
    LET alias_candidates == AgentAliasCandidates(event_data)
        alias_hits == {i \in DOMAIN alias_candidates :
                          LET candidate_key == FGet(task_aliases,
                                                    _normalise_alias(alias_candidates[i]))
                          IN  Truthy(candidate_key) /\ DHas(registry, candidate_key)}
        scan_hits == {i \in DOMAIN registry :
                         /\ registry[i].v.task_id = task_id
                         /\ AgentFieldMatches(registry[i].v, event_data)}
        task_candidates == {i \in DOMAIN registry : registry[i].v.task_id = task_id}
    IN  IF alias_hits # {}
        THEN task_aliases[_normalise_alias(alias_candidates[First(alias_hits)])]
        ELSE IF scan_hits # {} THEN registry[First(scan_hits)].k
        ELSE IF Cardinality(task_candidates) = 1
                /\ Truthy(registry[First(task_candidates)].v.run_key)
             THEN registry[First(task_candidates)].v.run_key
        ELSE _build_agent_run_key(task_id, event_data, fresh)

\* the AgentEntry of lines 535-545
NewAgentEntry(run_key, task_id, event_data) ==
    [run_key |-> run_key,
     task_id |-> task_id,
     agent_id |-> Get(event_data, "agent_id"),
     agent_role |-> Or(Get(event_data, "agent_role"), Str(<<"A", "g", "e", "n", "t">>)),
     status |-> "pending",
     history |-> <<>>,
     tools |-> <<>>,
     first_seen |-> Get(event_data, "timestamp"),
     source_fingerprint |-> Get(event_data, "source_fingerprint"),
     output_fragments |-> <<>>,
     output |-> None,
     error |-> None,
     tool_active_map |-> <<>>,
     tool_sequence |-> 0,
     last_event |-> "none",
     last_updated |-> None]

\* lines 553-574: identity, status and error
IdentifiedAgentEntry(entry, run_key, task_id, event_type, event_data) ==
    [entry EXCEPT
        !.run_key = run_key,
        !.task_id = task_id,
        !.agent_role = IF Truthy(Get(event_data, "agent_role"))
                       THEN Get(event_data, "agent_role") ELSE @,
        !.agent_id = IF Truthy(Get(event_data, "agent_id"))
                     THEN Get(event_data, "agent_id") ELSE @,
        !.source_fingerprint = IF Truthy(Get(event_data, "source_fingerprint"))
                               THEN Get(event_data, "source_fingerprint") ELSE @,
        !.status = IF AgentStatusLookup(event_type) # "none"
                   THEN AgentStatusLookup(event_type) ELSE @,
        !.error = IF event_type = "agent:error" /\ Truthy(Get(event_data, "error"))
                  THEN Get(event_data, "error") ELSE @]

\* lines 571-577: the output merge and the tool usage
AgentOutputAndTools(entry, event_type, event_data) ==
    IF event_type = "agent:completed" /\ Truthy(Get(event_data, "output"))
    THEN _merge_agent_output(entry, Get(event_data, "output"))
    ELSE IF event_type \in ToolTypes THEN _update_tool_usage(entry, event_type, event_data)
    ELSE entry

\* lines 579-588
StampedAgentEntry(entry, event_type, event_data) ==
    [entry EXCEPT
        !.last_event = event_type,
        !.last_updated = Get(event_data, "timestamp"),
        !.history = Append(@, HistoryEntry(event_type, event_data))]

\* the AgentEntry after lines 534-588
UpdatedAgentEntry(registry, run_key, task_id, event_type, event_data) ==
    StampedAgentEntry(
        AgentOutputAndTools(
            IdentifiedAgentEntry(
                IF DHas(registry, run_key) THEN DGet(registry, run_key)
                ELSE NewAgentEntry(run_key, task_id, event_data),
                run_key, task_id, event_type, event_data),
            event_type, event_data),
        event_type, event_data)

\* lines 476-590 once the task and the entry's run_key are known
StoreAgentEvent(registry, alias_store, uuid_n, event_type, event_data, task_id, task_aliases, run_key) ==
    [registry |-> DSet(registry, run_key,
                       UpdatedAgentEntry(registry, run_key, task_id, event_type, event_data)),
     alias_store |-> FSet(alias_store, task_id,
                          RegisterAliases(task_aliases, AgentAliasCandidates(event_data),
                                          run_key)),
     uuid_n |-> IF run_key = Str(ToChars(task_id) \o <<":">> \o Uuid(uuid_n + 1)[2])
                THEN uuid_n + 1 ELSE uuid_n,
     run_key |-> run_key]

ResolveAndStoreAgentEvent(registry, alias_store, uuid_n, event_type, event_data, task_id, task_aliases) ==
    StoreAgentEvent(registry, alias_store, uuid_n, event_type, event_data, task_id,
                    task_aliases,
                    ResolveAgent(registry, task_aliases, task_id, event_data,
                                 Uuid(uuid_n + 1)))

AgentEventInTask(registry, alias_store, uuid_n, event_type, event_data, task_id) ==
    IF event_type \notin (AgentTypes \cup ToolTypes) \/ ~Truthy(task_id)
    THEN [registry |-> registry, alias_store |-> alias_store, uuid_n |-> uuid_n,
          run_key |-> None]
    ELSE ResolveAndStoreAgentEvent(registry, alias_store, uuid_n, event_type, event_data,
                                   task_id,
                                   IF task_id \in DOMAIN alias_store
                                   THEN alias_store[task_id] ELSE <<>>)

\* _update_agent_registry with line 472 falling back on a placeholder task
\* where lines 473-474 return None
_update_agent_registry_placeholder_task(registry, alias_store, uuid_n, event_type, event_data, task_id_arg) ==
    AgentEventInTask(registry, alias_store, uuid_n, event_type, event_data,
                     Or(Or(task_id_arg, Get(event_data, "task_id")),
                        Str(<<"u", "n", "k", "n", "o", "w", "n">>)))

\* _update_agent_registry: the registry, the alias store and the number of uuids
\* drawn after the call, and the run_key of the entry it returns (None for None)
_update_agent_registry(registry, alias_store, uuid_n, event_type, event_data, task_id_arg) ==
    AgentEventInTask(registry, alias_store, uuid_n, event_type, event_data,
                     Or(task_id_arg, Get(event_data, "task_id")))

(***************************************************************************)
(* Session state (st.session_state), the queue of the run and the worker   *)
(* handle.  uuid_count is the number of uuid4 values drawn so far;         *)
(* runs_started and put_count count the runs started and the records       *)
(* enqueued; resolved holds the task_id and the agent run_key the last     *)
(* _process_event call resolved its record to (its local variables).       *)
(* workers[n] is the position of the call of _run_financial_crew that run  *)
(* n submitted to EXECUTOR; enqueued is the sequence of records put on the *)
(* queue of the active run since _start_run created it.                    *)
(***************************************************************************)
VARIABLES run_id, status, events, completed_tasks, task_registry, agent_registry,
          task_alias_map, agent_alias_map, event_queue, crew_future,
          future_processed, final_output, errors,
          uuid_count, runs_started, put_count, resolved, workers, enqueued

registry_vars == <<events, completed_tasks, task_registry, agent_registry,
                   task_alias_map, agent_alias_map, status, final_output, errors>>
vars == <<run_id, status, events, completed_tasks, task_registry, agent_registry,
          task_alias_map, agent_alias_map, event_queue, crew_future,
          future_processed, final_output, errors,
          uuid_count, runs_started, put_count, resolved, workers, enqueued>>

\* queue.Queue() holding items, and the Future of the submitted worker
Queue(items) == <<"queue", items>>
Future(state) == <<"future", state>>
IsQueue(q) == q[1] = "queue"

Unresolved == [task_id |-> None, run_key |-> None]

\* _init_session_state
Init ==
    /\ run_id = None
    /\ status = "idle"
    /\ events = <<>>
    /\ completed_tasks = {}
    /\ task_registry = <<>>
    /\ agent_registry = <<>>
    /\ task_alias_map = <<>>
    /\ agent_alias_map = <<>>
    /\ event_queue = None
    /\ crew_future = None
    /\ future_processed = FALSE
    /\ final_output = None
    /\ errors = <<>>
    /\ uuid_count = 0
    /\ runs_started = 0
    /\ put_count = 0
    /\ resolved = Unresolved
    /\ workers = <<>>
    /\ enqueued = <<>>

(***************************************************************************)
(* Bounds of the exploration                                               *)
(***************************************************************************)
MaxRuns == 1
MaxEvents == 2
MaxTaskEvents == 4
MaxAgentEvents == 3
MaxToolEvents == 4
MaxProgressEvents == 5
MaxLifecycleRuns == 2
MaxRunEvents == 2
MaxListenerEvents == 1
MaxLinkEvents == 3
MaxDescriptionEvents == 3
MaxStatusEvents == 3
MaxAttributionEvents == 3
MaxTerminalEvents == 4
MaxArgumentEvents == 3

\* EXPECTED_TASKS
EXPECTED_TASKS == 4

\* _start_run that goes on with the queue of the run before
StartRunWithin_same_queue(limit) ==
    /\ status # "running"
    /\ runs_started < limit
    /\ run_id' = Uuid(uuid_count + 1)
    /\ uuid_count' = uuid_count + 1
    /\ status' = "running"
    /\ events' = <<>>
    /\ completed_tasks' = {}
    /\ task_registry' = <<>>
    /\ agent_registry' = <<>>
    /\ task_alias_map' = <<>>
    /\ agent_alias_map' = <<>>
    /\ event_queue' = IF IsQueue(event_queue) THEN event_queue ELSE Queue(<<>>)
    /\ final_output' = None
    /\ errors' = <<>>
    /\ future_processed' = FALSE
    /\ crew_future' = Future("running")
    /\ runs_started' = runs_started + 1
    /\ put_count' = 0
    /\ resolved' = Unresolved
    /\ workers' = Append(workers, "submitted")
    /\ enqueued' = <<>>

\* _start_run behind a button that is never disabled
StartRunWithin_unguarded(limit) ==
    /\ runs_started < limit
    /\ run_id' = Uuid(uuid_count + 1)
    /\ uuid_count' = uuid_count + 1
    /\ status' = "running"
    /\ events' = <<>>
    /\ completed_tasks' = {}
    /\ task_registry' = <<>>
    /\ agent_registry' = <<>>
    /\ task_alias_map' = <<>>
    /\ agent_alias_map' = <<>>
    /\ event_queue' = Queue(<<>>)
    /\ final_output' = None
    /\ errors' = <<>>
    /\ future_processed' = FALSE
    /\ crew_future' = Future("running")
    /\ runs_started' = runs_started + 1
    /\ put_count' = 0
    /\ resolved' = Unresolved
    /\ workers' = Append(workers, "submitted")
    /\ enqueued' = <<>>

\* _start_run, reached from main only while the button is enabled (line 954);
\* limit bounds the number of runs explored
StartRunWithin(limit) ==
    /\ status # "running"
    /\ runs_started < limit
    /\ run_id' = Uuid(uuid_count + 1)
    /\ uuid_count' = uuid_count + 1
    /\ status' = "running"
    /\ events' = <<>>
    /\ completed_tasks' = {}
    /\ task_registry' = <<>>
    /\ agent_registry' = <<>>
    /\ task_alias_map' = <<>>
    /\ agent_alias_map' = <<>>
    /\ event_queue' = Queue(<<>>)
    /\ final_output' = None
    /\ errors' = <<>>
    /\ future_processed' = FALSE
    /\ crew_future' = Future("running")
    /\ runs_started' = runs_started + 1
    /\ put_count' = 0
    /\ resolved' = Unresolved
    /\ workers' = Append(workers, "submitted")
    /\ enqueued' = <<>>

StartRun == StartRunWithin(MaxRuns)

\* _process_event without the run_id test of line 334
AcceptsPayload_any_run(payload, active_run_id) == TRUE

\* line 334: the record belongs to the active run
AcceptsPayload(payload, active_run_id) == payload.run_id = active_run_id

\* task_entry["agents"][agent_entry["run_key"]] = agent_entry (lines 347-349)
LinkAgent(tasks, task_id, registry, run_key) ==
    IF run_key = None \/ task_id = None \/ ~DHas(tasks, task_id) THEN tasks
    ELSE LET task_entry == DGet(tasks, task_id)
         IN  DSet(tasks, task_id,
                  [task_entry EXCEPT
                      !.agents = DSet(@, DGet(registry, run_key).run_key, run_key)])

\* lines 340-362 with the results t and a of the two registry updates
ApplyEvent(payload, t, a) ==
    /\ events' = Append(events, payload)
    /\ task_registry' = LinkAgent(t.tasks, t.task_id, a.registry, a.run_key)
    /\ task_alias_map' = t.alias_map
    /\ agent_registry' = a.registry
    /\ agent_alias_map' = a.alias_store
    /\ uuid_count' = a.uuid_n
    /\ resolved' = [task_id |-> t.task_id, run_key |-> a.run_key]
    /\ completed_tasks' =
           IF payload.type = "task:completed"
           THEN completed_tasks \cup
                {IF Truthy(t.task_id) THEN t.task_id ELSE <<"type", payload.type>>}
           ELSE completed_tasks
    /\ status' = CASE payload.type = "run:completed" -> "completed"
                   [] payload.type = "run:failed" -> "failed"
                   [] OTHER -> status
    /\ final_output' = IF payload.type = "run:completed"
                       THEN Get(payload.event, "output") ELSE final_output
    /\ errors' = IF payload.type = "run:failed"
                 THEN Append(errors,
                             IF "error" \in DOMAIN payload.event THEN payload.event["error"]
                             ELSE Str(<<"U", "n", "k", "n", "o", "w", "n", " ", "e", "r", "r", "o", "r">>))
                 ELSE errors

\* lines 342-346: agent_entry = _update_agent_registry(..., task_id=task_id)
ApplyEventInTask(payload, t) ==
    \E a \in {_update_agent_registry(agent_registry, agent_alias_map, t.uuid_n,
                                      payload.type, payload.event, t.task_id)} :
        ApplyEvent(payload, t, a)

\* _process_event
ProcessEvent(payload) ==
    IF ~AcceptsPayload(payload, run_id)
    THEN UNCHANGED <<registry_vars, uuid_count, resolved>>
    ELSE \E t \in {_update_task_registry(task_registry, task_alias_map, uuid_count,
                                          payload.type, payload.event)} :
             ApplyEventInTask(payload, t)

\* a turn of the drain loop that processes the head and leaves it queued
DrainOne_peeking ==
    /\ IsQueue(event_queue)
    /\ event_queue[2] # <<>>
    /\ ProcessEvent(Head(event_queue[2]))
    /\ UNCHANGED <<run_id, event_queue, crew_future, future_processed, runs_started,
                   put_count, workers, enqueued>>

\* one turn of the loop of _drain_event_queue: get_nowait() and _process_event
DrainOne ==
    /\ IsQueue(event_queue)
    /\ event_queue[2] # <<>>
    /\ event_queue' = Queue(Tail(event_queue[2]))
    /\ ProcessEvent(Head(event_queue[2]))
    /\ UNCHANGED <<run_id, crew_future, future_processed, runs_started, put_count,
                   workers, enqueued>>

\* repr(exc) of the exception the crew raises
sBoom == Str(<<"R", "u", "n", "t", "i", "m", "e", "E", "r", "r", "o", "r", "(", "'", "b", "o", "o", "m", "'", ")">>)

\* the positions of a call of _run_financial_crew that has left its thread
Finished == {"returned", "raised"}

\* a worker that goes on running after its run-level record
WorkerAfterPut_resuming(payload) == "running"

\* the position of the worker after it has put payload: the run:completed
\* record is the last statement before the return (lines 296-303), the
\* run:failed record the last before the raise (lines 305-316)
WorkerAfterPut(payload) ==
    IF payload.run_id # run_id THEN "running"
    ELSE CASE payload.type = "run:completed" -> "returning"
           [] payload.type = "run:failed" -> "raising"
           [] OTHER -> "running"

\* the worker takes a thread: FinancialCrew(company) is built, the listener
\* installed and crew.run() entered (lines 290-294).  EXECUTOR is assigned
\* at the top of the script (line 33), which a host that executes the script
\* anew for every rerun builds again each time, so the call submitted by
\* _start_run may begin while the worker of the run before is still
\* unwinding; with one executor for all reruns it begins once that worker
\* has finished.  The model lets it begin in either case.
WorkerBegins ==
    /\ runs_started > 0
    /\ workers[runs_started] = "submitted"
    /\ workers' = [workers EXCEPT ![runs_started] = "running"]
    /\ UNCHANGED <<registry_vars, run_id, event_queue, crew_future, future_processed,
                   uuid_count, runs_started, put_count, resolved, enqueued>>

\* event_queue.put(record) by the worker thread of the run, while it runs
Put(payload) ==
    /\ IsQueue(event_queue)
    /\ workers[runs_started] = "running"
    /\ event_queue' = Queue(Append(event_queue[2], payload))
    /\ put_count' = put_count + 1
    /\ enqueued' = Append(enqueued, payload)
    /\ workers' = [workers EXCEPT ![runs_started] = WorkerAfterPut(payload)]
    /\ UNCHANGED <<registry_vars, run_id, crew_future, future_processed,
                   uuid_count, runs_started, resolved>>

\* the handle of the active run once the worker of run n has left its thread
FutureAfterExit(n, outcome) ==
    IF n = runs_started THEN Future(outcome) ELSE crew_future

\* FinancialCrew(company) raises at line 290, outside the try: nothing is put
CrewConstructionRaises ==
    /\ runs_started > 0
    /\ workers[runs_started] = "submitted"
    /\ workers' = [workers EXCEPT ![runs_started] = "raised"]
    /\ crew_future' = Future("raised")
    /\ UNCHANGED <<registry_vars, run_id, event_queue, future_processed,
                   uuid_count, runs_started, put_count, resolved, enqueued>>

\* the worker of run n leaves _run_financial_crew: the return after the
\* run:completed record, or the raise of line 316 after the run:failed record
WorkerExits ==
    \E n \in DOMAIN workers :
        /\ workers[n] \in {"returning", "raising"}
        /\ workers' = [workers EXCEPT ![n] = IF @ = "returning" THEN "returned" ELSE "raised"]
        /\ crew_future' = FutureAfterExit(n, workers'[n])
        /\ UNCHANGED <<registry_vars, run_id, event_queue, future_processed,
                       uuid_count, runs_started, put_count, resolved, enqueued>>

\* _check_future_completion without the append of line 731
CheckFutureCompletion_silent ==
    /\ crew_future \in {Future("returned"), Future("raised")}
    /\ ~future_processed
    /\ future_processed' = TRUE
    /\ status' = IF crew_future = Future("raised") THEN "failed" ELSE status
    /\ UNCHANGED <<events, completed_tasks, task_registry, agent_registry,
                   task_alias_map, agent_alias_map, final_output, errors,
                   run_id, event_queue, crew_future,
                   uuid_count, runs_started, put_count, resolved, workers, enqueued>>

\* _check_future_completion that also marks a run completed from its handle
CheckFutureCompletion_completing ==
    /\ crew_future \in {Future("returned"), Future("raised")}
    /\ ~future_processed
    /\ future_processed' = TRUE
    /\ status' = IF crew_future = Future("raised") THEN "failed" ELSE "completed"
    /\ errors' = IF crew_future = Future("raised") /\ status # "failed"
                 THEN Append(errors, sBoom) ELSE errors
    /\ UNCHANGED <<events, completed_tasks, task_registry, agent_registry,
                   task_alias_map, agent_alias_map, final_output,
                   run_id, event_queue, crew_future,
                   uuid_count, runs_started, put_count, resolved, workers, enqueued>>

\* _check_future_completion that records the exception and leaves the status
CheckFutureCompletion_recording_only ==
    /\ crew_future \in {Future("returned"), Future("raised")}
    /\ ~future_processed
    /\ future_processed' = TRUE
    /\ errors' = IF crew_future = Future("raised") /\ status # "failed"
                 THEN Append(errors, sBoom) ELSE errors
    /\ UNCHANGED <<events, completed_tasks, task_registry, agent_registry,
                   task_alias_map, agent_alias_map, final_output, status,
                   run_id, event_queue, crew_future,
                   uuid_count, runs_started, put_count, resolved, workers, enqueued>>

\* _check_future_completion
CheckFutureCompletion ==
    /\ crew_future \in {Future("returned"), Future("raised")}
    /\ ~future_processed
    /\ future_processed' = TRUE
    /\ IF crew_future = Future("raised") /\ status # "failed"
       THEN /\ status' = "failed"
            /\ errors' = Append(errors, sBoom)
       ELSE UNCHANGED <<status, errors>>
    /\ UNCHANGED <<events, completed_tasks, task_registry, agent_registry,
                   task_alias_map, agent_alias_map, final_output,
                   run_id, event_queue, crew_future,
                   uuid_count, runs_started, put_count, resolved, workers, enqueued>>

\* _progress_fraction with the cap 1.0 whatever the status
_progress_fraction_uncapped ==
    IF status = "idle" THEN 0
    ELSE IF (Cardinality(completed_tasks) * 1000) \div EXPECTED_TASKS < 1000
         THEN (Cardinality(completed_tasks) * 1000) \div EXPECTED_TASKS
         ELSE 1000

\* _progress_fraction that reports 1.0 as soon as the run is completed
_progress_fraction_full_when_completed ==
    IF status = "idle" THEN 0
    ELSE IF status = "completed" THEN 1000
    ELSE IF (Cardinality(completed_tasks) * 1000) \div EXPECTED_TASKS < 999
         THEN (Cardinality(completed_tasks) * 1000) \div EXPECTED_TASKS
         ELSE 999

\* _progress_fraction, in thousandths (multiples of 1/EXPECTED_TASKS are exact)
_progress_fraction ==
    IF status = "idle" THEN 0
    ELSE LET completed == Cardinality(completed_tasks)
             ratio == (completed * 1000) \div EXPECTED_TASKS
             cap == IF status = "running" THEN 999 ELSE 1000
         IN  IF ratio < cap THEN ratio ELSE cap

(***************************************************************************)
(* Records the worker enqueues.  A record is {run_id, type, event}; every  *)
(* value below is one the listener or _run_financial_crew can produce.     *)
(***************************************************************************)
Payload(event_type, event_data) ==
    [run_id |-> run_id, type |-> event_type, event |-> event_data]

sT1 == Str(<<"T", "1">>)
sT2 == Str(<<"T", "2">>)
sT1Padded == Str(<<" ", "t", "1", " ">>)
sAgentA == Str(<<"A">>)
sHello == Str(<<"H", "e", "l", "l", "o">>)
sHelloPadded == Str(<<" ", "H", "e", "l", "l", "o">>)
sHelloWorld == Str(<<"H", "e", "l", "l", "o", " ", "w", "o", "r", "l", "d">>)
sWorld == Str(<<"w", "o", "r", "l", "d">>)
sBlank == Str(<<" ">>)
sOut42 == Str(<<"4", "2">>)
sOut4 == Str(<<"4">>)
sOut5 == Str(<<"5">>)
sFinal == Str(<<"F", "i", "n", "a", "l", ":", " ", "4">>)
sExpr == Str(<<"2", "+", "2">>)

\* tool arguments: one object written three ways, and a text that is not JSON
ArgsObjBA == Dict(<< <<<<"b">>, Num(2)>>, <<<<"a">>, Num(1)>> >>)
ArgsObjAB == Dict(<< <<<<"a">>, Num(1)>>, <<<<"b">>, Num(2)>> >>)
ArgsJson == Str(<<" ", "{", "\"", "b", "\"", ":", "2", ",", " ", "\"", "a", "\"", ":", " ", "1", "}">>)
EquivalentArgs == {ArgsObjBA, ArgsObjAB, ArgsJson}

\* task events: no alias at all, an id, an id with a name, a padded name only
TaskPayloads ==
    {Payload("task:started", <<>>),
     Payload("task:started", [task_id |-> sT1]),
     Payload("task:started", [task_id |-> sT2]),
     Payload("task:started", [task_id |-> sT2, name |-> sT1]),
     Payload("task:completed", [task_id |-> sT1]),
     Payload("task:completed", [task_name |-> sT1Padded])}

\* agent events of agent A on task T1
AgentOutputs == {sHello, sHelloPadded, sHelloWorld, sWorld, sBlank}
AgentPayloads ==
    {Payload("agent:started", [task_id |-> sT1, agent_id |-> sAgentA])}
    \cup {Payload("agent:completed", [task_id |-> sT1, agent_id |-> sAgentA, output |-> o]) :
             o \in AgentOutputs}

\* tool events of agent A on task T1
ToolPayloads ==
    {Payload("tool:started", [task_id |-> sT1, agent_id |-> sAgentA, tool_args |-> ArgsObjBA]),
     Payload("tool:started", [task_id |-> sT1, agent_id |-> sAgentA, tool_args |-> sExpr]),
     Payload("tool:finished", [task_id |-> sT1, agent_id |-> sAgentA, tool_args |-> ArgsJson,
                               output |-> sOut42]),
     Payload("tool:finished", [task_id |-> sT1, agent_id |-> sAgentA, tool_args |-> ArgsObjAB,
                               output |-> sOut42]),
     Payload("tool:finished", [task_id |-> sT1, agent_id |-> sAgentA, tool_args |-> sExpr,
                               output |-> sOut4])}

\* what the progress depends on: completed tasks and the run-level records
ProgressPayloads ==
    {Payload("task:completed", <<>>),
     Payload("task:completed", [task_id |-> sT1]),
     Payload("run:completed", [output |-> sFinal]),
     Payload("run:failed", [error |-> sBoom])}

CrewPayloads == {Payload("crew:kickoff-started", <<>>)}

\* records that carry another run's id, one of every kind: _process_event is
\* defined for every record it is handed, whatever its run_id
OtherRun == Str(<<"o", "l", "d">>)
StalePayloads ==
    {[p EXCEPT !.run_id = OtherRun] :
        p \in {Payload("crew:kickoff-started", <<>>),
               Payload("task:started", [task_id |-> sT1]),
               Payload("task:completed", [task_id |-> sT2]),
               Payload("agent:completed", [task_id |-> sT1, agent_id |-> sAgentA,
                                           output |-> sHello]),
               Payload("tool:started", [task_id |-> sT1, agent_id |-> sAgentA,
                                        tool_args |-> sExpr]),
               Payload("tool:finished", [task_id |-> sT1, agent_id |-> sAgentA,
                                         tool_args |-> sExpr, output |-> sOut4]),
               Payload("run:completed", [output |-> sFinal]),
               Payload("run:failed", [error |-> sBoom])}}

AnyPayloads ==
    TaskPayloads \cup AgentPayloads \cup ToolPayloads \cup ProgressPayloads
    \cup CrewPayloads \cup StalePayloads

PutAny == \E p \in AnyPayloads : put_count < MaxEvents /\ Put(p)
PutTaskEvent == \E p \in TaskPayloads : put_count < MaxTaskEvents /\ Put(p)
PutAgentEvent == \E p \in AgentPayloads : put_count < MaxAgentEvents /\ Put(p)
PutToolEvent == \E p \in ToolPayloads : put_count < MaxToolEvents /\ Put(p)
PutProgressEvent == \E p \in ProgressPayloads : put_count < MaxProgressEvents /\ Put(p)

(***************************************************************************)
(* The end-to-end scenario: the records one run of the engine emits, in    *)
(* order, with the tool's and the agent's output drawn from two values.    *)
(***************************************************************************)
sTaskT1 == Str(<<"t", "1">>)
sAnalyze == Str(<<"A", "n", "a", "l", "y", "z", "e", " ", "A", "A", "P", "L">>)
sAnalyst == Str(<<"F", "i", "n", "a", "n", "c", "i", "a", "l", " ", "A", "n", "a", "l", "y", "s", "t">>)
sCalculator == Str(<<"C", "a", "l", "c", "u", "l", "a", "t", "o", "r">>)
sResult4 == Str(<<"R", "e", "s", "u", "l", "t", ":", " ", "4">>)
sResult5 == Str(<<"R", "e", "s", "u", "l", "t", ":", " ", "5">>)

E2EScript(tool_output, agent_output) ==
    <<Payload("crew:kickoff-started", <<>>),
      Payload("task:started", [task_id |-> sTaskT1, name |-> sAnalyze]),
      Payload("agent:started", [task_id |-> sTaskT1, agent_role |-> sAnalyst]),
      Payload("tool:started", [tool_name |-> sCalculator, tool_args |-> sExpr]),
      Payload("tool:finished", [tool_name |-> sCalculator, output |-> tool_output]),
      Payload("agent:completed", [output |-> agent_output]),
      Payload("task:completed", [task_id |-> sTaskT1]),
      Payload("run:completed", [output |-> sFinal])>>

E2ELength == Len(E2EScript(sOut4, sResult4))

EmitE2E ==
    \E tool_output \in {sOut4, sOut5}, agent_output \in {sResult4, sResult5} :
        /\ put_count < E2ELength
        /\ Put(E2EScript(tool_output, agent_output)[put_count + 1])

(***************************************************************************)
(* The listener (listeners.py).  An event of the bus is the class it is an *)
(* instance of, what its to_json and the fallback to_serializable give     *)
(* (a value, or an exception), and what reading its task and agent         *)
(* attributes gives.  A call that raises is [ok |-> FALSE], with the       *)
(* repr of its exception; a call that returns says whether it returned a   *)
(* dict.  An object is its attributes.                                     *)
(***************************************************************************)
Returned(v) == [ok |-> TRUE, is_dict |-> TRUE, value |-> v]
ReturnedNoDict(v) == [ok |-> TRUE, is_dict |-> FALSE, value |-> v]
Raised(text) == [ok |-> FALSE, is_dict |-> FALSE, value |-> text]
Object(attrs) == <<"object", attrs>>

\* dict.setdefault(key, value)
SetDefault(d, key, value) ==
    [k \in DOMAIN d \cup {key} |-> IF k \in DOMAIN d THEN d[k] ELSE value]

\* the first of the attributes attrs of obj that is a non-empty str, or None
FirstStrAttr(obj, attrs) ==
    LET hits == SelectSeq(attrs, LAMBDA a : /\ a \in DOMAIN obj[2]
                                             /\ IsStr(obj[2][a])
                                             /\ obj[2][a][2] # <<>>)
    IN  IF hits = <<>> THEN None ELSE obj[2][hits[1]]

\* _get_task_identifier
_get_task_identifier(task) ==
    IF FirstStrAttr(task, <<"id", "task_id", "name">>) # None
    THEN FirstStrAttr(task, <<"id", "task_id", "name">>)
    ELSE FirstStrAttr(task, <<"fingerprint">>)

\* _get_task_name
_get_task_name(task) == FirstStrAttr(task, <<"name", "title", "description">>)

\* _get_agent_identifiers: <<agent_id, agent_role>>
_get_agent_identifiers(agent) ==
    <<FirstStrAttr(agent, <<"fingerprint", "id">>), FirstStrAttr(agent, <<"role", "name">>)>>

\* enriched.setdefault(key, value) under "if value:"
SetDefaultIf(d, key, value) == IF value = None THEN d ELSE SetDefault(d, key, value)

\* _serialise_event
_serialise_event(event) ==
    LET data == IF "to_json" \in DOMAIN event /\ event.to_json.ok
                THEN event.to_json ELSE event.to_serializable
    IN  IF ~data.ok THEN data
        ELSE IF data.is_dict
             THEN Returned(SetDefault(data.value, "event_type", event.class))
             ELSE Returned([event_type |-> event.class, value |-> data.value])

\* _enrich_event, given the dict _serialise_event returned
_enrich_event(event, data) ==
    IF ~event.task.ok THEN event.task
    ELSE IF ~event.agent.ok THEN event.agent
    ELSE LET task == event.task.value
             agent == event.agent.value
             with_task ==
                 IF task = None THEN data
                 ELSE SetDefaultIf(SetDefaultIf(data, "task_id", _get_task_identifier(task)),
                                   "task_name", _get_task_name(task))
         IN  Returned(IF agent = None THEN with_task
                      ELSE SetDefaultIf(SetDefaultIf(with_task, "agent_id",
                                                     _get_agent_identifiers(agent)[1]),
                                        "agent_role", _get_agent_identifiers(agent)[2]))

\* the try block of the handler: self._enrich_event(event, self._serialise_event(event))
SerialisedAndEnriched(event) ==
    IF ~_serialise_event(event).ok THEN _serialise_event(event)
    ELSE _enrich_event(event, _serialise_event(event).value)

\* the handler of _build_handler with its except branch pushing the record
\* of the normal branch, with an empty payload
HandlerRecord_swallowing(event_type, event, now) ==
    Payload(event_type,
            IF SerialisedAndEnriched(event).ok THEN SerialisedAndEnriched(event).value ELSE <<>>)

\* the record the handler of _build_handler(event_type) pushes for event, the
\* clock reading now
HandlerRecord(event_type, event, now) ==
    IF SerialisedAndEnriched(event).ok
    THEN Payload(event_type, SerialisedAndEnriched(event).value)
    ELSE Payload("listener:error",
                 [error |-> SerialisedAndEnriched(event).value,
                  event_type |-> event.class,
                  timestamp |-> now])

sTaskStartedEvent == Str(<<"T", "a", "s", "k", "S", "t", "a", "r", "t", "e", "d", "E", "v", "e", "n", "t">>)
sAgentExecutionCompletedEvent == Str(<<"A", "g", "e", "n", "t", "E", "x", "e", "c", "u", "t", "i", "o", "n", "C", "o", "m", "p", "l", "e", "t", "e", "d", "E", "v", "e", "n", "t">>)
sToolUsageErrorEvent == Str(<<"T", "o", "o", "l", "U", "s", "a", "g", "e", "E", "r", "r", "o", "r", "E", "v", "e", "n", "t">>)
sTypeError == Str(<<"T", "y", "p", "e", "E", "r", "r", "o", "r", "(", "'", "x", "'", ")">>)
sValueError == Str(<<"V", "a", "l", "u", "e", "E", "r", "r", "o", "r", "(", "'", "y", "'", ")">>)
sClock1 == Str(<<"2", "0", "2", "5", "-", "0", "1", "-", "0", "1", "T", "0", "0", ":", "0", "0", ":", "0", "0">>)
sClock2 == Str(<<"2", "0", "2", "5", "-", "0", "1", "-", "0", "1", "T", "0", "0", ":", "0", "0", ":", "0", "1">>)

\* the handlers setup_listeners registers, with the class each is bound to
Handlers ==
    {<<"task:started", sTaskStartedEvent>>,
     <<"agent:completed", sAgentExecutionCompletedEvent>>,
     <<"tool:error", sToolUsageErrorEvent>>}

\* what the queries of an event can give
JsonOutcomes ==
    <<Returned(<<>>), Returned([output |-> sHello]), ReturnedNoDict(sHello), Raised(sTypeError)>>
FallbackOutcomes == <<Returned([task_id |-> sT2]), Raised(sTypeError)>>
TaskOutcomes ==
    <<ReturnedNoDict(None),
      ReturnedNoDict(Object([id |-> sT1, description |-> sAnalyze])),
      Raised(sValueError)>>
AgentOutcomes ==
    <<ReturnedNoDict(None), ReturnedNoDict(Object([id |-> sAgentA, role |-> sAnalyst]))>>
ClockReadings == {sClock1, sClock2}

\* the event of class class whose queries give the outcomes numbered j, f, t, a
ListenerEvent(class, j, f, t, a) ==
    [class |-> class, to_json |-> JsonOutcomes[j], to_serializable |-> FallbackOutcomes[f],
     task |-> TaskOutcomes[t], agent |-> AgentOutcomes[a]]

\* the event bus calls one handler with an event of its class
HandleEvent ==
    \E h \in Handlers, now \in ClockReadings :
        \E j \in DOMAIN JsonOutcomes, f \in DOMAIN FallbackOutcomes,
           t \in DOMAIN TaskOutcomes, a \in DOMAIN AgentOutcomes :
            /\ put_count < MaxListenerEvents
            /\ Put(HandlerRecord(h[1], ListenerEvent(h[2], j, f, t, a), now))

(***************************************************************************)
(* Agents of several tasks.  Task ids and agent ids are the strings the    *)
(* engine gives its tasks and agents (a name serves as the id of a task    *)
(* that has no id, listeners.py line 118), so they may contain a colon.    *)
(***************************************************************************)
sT == Str(<<"T">>)
sTx == Str(<<"T", ":", "x">>)
sAgentxA == Str(<<"x", ":", "A">>)

LinkPayloads ==
    {Payload("agent:started", [task_id |-> sT1, agent_id |-> sAgentA]),
     Payload("agent:started", [task_id |-> sT2, agent_id |-> sAgentA]),
     Payload("agent:started", [task_id |-> sT, agent_id |-> sAgentxA]),
     Payload("agent:started", [task_id |-> sTx, agent_id |-> sAgentA]),
     Payload("agent:started", [task_id |-> sTx, agent_id |-> sAgentxA])}

PutLinkEvent == \E p \in LinkPayloads : put_count < MaxLinkEvents /\ Put(p)

(***************************************************************************)
(* Events that describe their task.  The listener copies a task's          *)
(* description into task_name when the task has no name (listeners.py      *)
(* lines 130-135); the serialised event itself may carry description.      *)
(***************************************************************************)
DescriptionPayloads ==
    {Payload("task:started", [description |-> sAnalyze]),
     Payload("task:completed", [description |-> sAnalyze]),
     Payload("task:started", [task_id |-> sT1, description |-> sAnalyze]),
     Payload("agent:started", [description |-> sAnalyze, agent_id |-> sAgentA])}

PutDescriptionEvent ==
    \E p \in DescriptionPayloads : put_count < MaxDescriptionEvents /\ Put(p)

(***************************************************************************)
(* The events of one task: the three task events, the events of its agent  *)
(* and of a tool, a crew event and the run-level record (which name no     *)
(* task).                                                                  *)
(***************************************************************************)
StatusPayloads ==
    {Payload("task:started", [task_id |-> sT1]),
     Payload("task:completed", [task_id |-> sT1]),
     Payload("task:failed", [task_id |-> sT1]),
     Payload("agent:started", [task_id |-> sT1, agent_id |-> sAgentA]),
     Payload("tool:started", [task_id |-> sT1, agent_id |-> sAgentA, tool_args |-> sExpr]),
     Payload("crew:kickoff-started", <<>>),
     Payload("run:completed", [output |-> sFinal])}

PutStatusEvent == \E p \in StatusPayloads : put_count < MaxStatusEvents /\ Put(p)

(***************************************************************************)
(* Attribution of agent and tool events: a second agent of a task that     *)
(* names itself by another id and role, a tool event that names no agent,  *)
(* and events that name no task, or name it by a blank task_id.            *)
(***************************************************************************)
sAgentB == Str(<<"B">>)
sReviewer == Str(<<"R", "e", "v", "i", "e", "w", "e", "r">>)

AttributionPayloads ==
    {Payload("agent:started", [task_id |-> sT1, agent_id |-> sAgentA]),
     Payload("agent:started", [task_id |-> sT1, agent_id |-> sAgentB, agent_role |-> sReviewer]),
     Payload("agent:started", [task_id |-> sT2, agent_id |-> sAgentA]),
     Payload("tool:started", [task_id |-> sT1, tool_args |-> sExpr]),
     Payload("agent:started", [agent_id |-> sAgentA]),
     Payload("tool:started", [agent_id |-> sAgentA, tool_args |-> sExpr]),
     Payload("agent:started", [task_id |-> sBlank, agent_id |-> sAgentA])}

PutAttributionEvent ==
    \E p \in AttributionPayloads : put_count < MaxAttributionEvents /\ Put(p)

(***************************************************************************)
(* The end of a tool invocation.  Every event of the bus carries the time  *)
(* it was emitted at; a tool:finished need not repeat the arguments of its *)
(* tool:started (the end-to-end scenario), and the output of a tool that   *)
(* returns None takes no value.  One tool is called again with other      *)
(* arguments, and by the agent of another task.                            *)
(***************************************************************************)
TerminalPayloads ==
    {Payload("tool:started", [task_id |-> sT1, agent_id |-> sAgentA, tool_name |-> sCalculator,
                              tool_args |-> sExpr, timestamp |-> sClock1]),
     Payload("tool:finished", [task_id |-> sT1, agent_id |-> sAgentA, tool_name |-> sCalculator,
                               output |-> sOut4, timestamp |-> sClock2]),
     Payload("tool:finished", [task_id |-> sT1, agent_id |-> sAgentA, tool_name |-> sCalculator,
                               tool_args |-> sExpr, output |-> None, timestamp |-> sClock2]),
     Payload("tool:error", [task_id |-> sT1, agent_id |-> sAgentA, tool_name |-> sCalculator,
                            tool_args |-> sExpr, error |-> sBoom, timestamp |-> sClock2]),
     Payload("tool:started", [task_id |-> sT1, agent_id |-> sAgentA, tool_name |-> sCalculator,
                              tool_args |-> ArgsObjBA, timestamp |-> sClock1]),
     Payload("tool:started", [task_id |-> sT2, agent_id |-> sAgentB, tool_name |-> sCalculator,
                              tool_args |-> sExpr, timestamp |-> sClock1])}

PutTerminalEvent == \E p \in TerminalPayloads : put_count < MaxTerminalEvents /\ Put(p)

(***************************************************************************)
(* The arguments of a tool as the bus delivers them: an object, its JSON   *)
(* text, an expression that is no JSON with and without blanks around it,  *)
(* a blank text, and none at all.                                          *)
(***************************************************************************)
sExprPadded == Str(<<" ", "2", "+", "2", " ">>)
ArgumentPayloads ==
    {Payload("tool:started", [task_id |-> sT1, agent_id |-> sAgentA, tool_args |-> ArgsObjBA]),
     Payload("tool:started", [task_id |-> sT1, agent_id |-> sAgentA, tool_args |-> sExprPadded]),
     Payload("tool:started", [task_id |-> sT1, agent_id |-> sAgentA, tool_args |-> sBlank]),
     Payload("tool:finished", [task_id |-> sT1, agent_id |-> sAgentA, tool_args |-> ArgsJson,
                               output |-> sOut42]),
     Payload("tool:finished", [task_id |-> sT1, agent_id |-> sAgentA, tool_args |-> ArgsObjAB,
                               output |-> sOut42]),
     Payload("tool:finished", [task_id |-> sT1, agent_id |-> sAgentA, tool_args |-> sExpr,
                               output |-> sOut4]),
     Payload("tool:finished", [task_id |-> sT1, agent_id |-> sAgentA, output |-> sOut4])}

PutArgumentEvent == \E p \in ArgumentPayloads : put_count < MaxArgumentEvents /\ Put(p)

(***************************************************************************)
(* The life of a run: the button starts it, the worker takes the thread,   *)
(* the listener enqueues records while crew.run() executes, and run()      *)
(* returns or raises; the poller drains and checks the handle meanwhile.   *)
(***************************************************************************)
RunPayloads ==
    {Payload("task:started", [task_id |-> sT1]),
     Payload("agent:started", [task_id |-> sT1, agent_id |-> sAgentA]),
     Payload("task:completed", [task_id |-> sT1])}

PutRunEvent == \E p \in RunPayloads : put_count < MaxRunEvents /\ Put(p)

\* crew.run() returns: the worker puts its run:completed record (lines 294-303)
RunReturns == Put(Payload("run:completed", [output |-> sFinal]))

\* crew.run() raises: the worker puts its run:failed record (lines 304-315)
RunRaises == Put(Payload("run:failed", [error |-> sBoom]))

StartLifecycleRun == StartRunWithin(MaxLifecycleRuns)

(***************************************************************************)
(* Specifications                                                          *)
(***************************************************************************)
Next ==
    \/ StartRun \/ WorkerBegins \/ PutAny \/ WorkerExits \/ DrainOne
    \/ CrewConstructionRaises \/ CheckFutureCompletion
Spec == Init /\ [][Next]_vars

NextTask == StartRun \/ WorkerBegins \/ PutTaskEvent \/ DrainOne
SpecTask == Init /\ [][NextTask]_vars

NextAgent == StartRun \/ WorkerBegins \/ PutAgentEvent \/ DrainOne
SpecAgent == Init /\ [][NextAgent]_vars

NextTool == StartRun \/ WorkerBegins \/ PutToolEvent \/ DrainOne
SpecTool == Init /\ [][NextTool]_vars

NextProgress ==
    \/ StartRun \/ WorkerBegins \/ PutProgressEvent \/ WorkerExits \/ DrainOne
    \/ CrewConstructionRaises \/ CheckFutureCompletion
SpecProgress == Init /\ [][NextProgress]_vars

NextRun ==
    \/ StartLifecycleRun \/ WorkerBegins \/ CrewConstructionRaises
    \/ PutRunEvent \/ RunReturns \/ RunRaises \/ WorkerExits
    \/ DrainOne \/ CheckFutureCompletion
SpecRun == Init /\ [][NextRun]_vars

\* one turn of the drain loop is possible: DrainOne is enabled exactly then
DrainEnabled == IsQueue(event_queue) /\ event_queue[2] # <<>>

\* a step that takes the head off the queue of the active run: among the
\* steps of NextRun these are the steps of DrainOne
DrainTurn ==
    /\ DrainEnabled
    /\ event_queue' = Queue(Tail(event_queue[2]))
    /\ run_id' = run_id

\* main reruns itself every second while the status is running (lines
\* 983-985), so the drain and the check of lines 963-964 keep being taken
\* while they have something to do.  The second conjunct is
\* WF_vars(status = "running" /\ DrainOne) with ENABLED written out.
FairSpecRun ==
    /\ SpecRun
    /\ ([]<>~(status = "running" /\ DrainEnabled)) \/ ([]<><<status = "running" /\ DrainTurn>>_vars)
    /\ WF_vars(status = "running" /\ CheckFutureCompletion)

NextListener == StartRun \/ WorkerBegins \/ HandleEvent \/ DrainOne
SpecListener == Init /\ [][NextListener]_vars

NextLink == StartRun \/ WorkerBegins \/ PutLinkEvent \/ DrainOne
SpecLink == Init /\ [][NextLink]_vars

NextDescription == StartRun \/ WorkerBegins \/ PutDescriptionEvent \/ DrainOne
SpecDescription == Init /\ [][NextDescription]_vars

NextStatus == StartRun \/ WorkerBegins \/ PutStatusEvent \/ DrainOne
SpecStatus == Init /\ [][NextStatus]_vars

NextAttribution == StartRun \/ WorkerBegins \/ PutAttributionEvent \/ DrainOne
SpecAttribution == Init /\ [][NextAttribution]_vars

NextTerminal == StartRun \/ WorkerBegins \/ PutTerminalEvent \/ DrainOne
SpecTerminal == Init /\ [][NextTerminal]_vars

NextArgument == StartRun \/ WorkerBegins \/ PutArgumentEvent \/ DrainOne
SpecArgument == Init /\ [][NextArgument]_vars

NextE2E ==
    StartRun \/ WorkerBegins \/ EmitE2E \/ WorkerExits \/ DrainOne \/ CheckFutureCompletion
SpecE2E == Init /\ [][NextE2E]_vars

(***************************************************************************)
(* Properties                                                              *)
(***************************************************************************)
Last(seq) == seq[Len(seq)]

\* this step is one turn of the drain loop that hands an accepted record to
\* _process_event
DrainsAccepted ==
    /\ IsQueue(event_queue)
    /\ event_queue[2] # <<>>
    /\ event_queue' = Queue(Tail(event_queue[2]))
    /\ run_id' = run_id
    /\ Head(event_queue[2]).run_id = run_id

\* the record that step processes
Drained == Head(event_queue[2])

\* C1: for one agent entry, tool:started(S), tool:finished(S), tool:started(S),
\* tool:finished(S) with one signature S leave two distinct ToolEntries: the
\* second tool:started allocates a new entry.
C1_SequentialReuseAllocates ==
    (/\ Len(events) = 4
     /\ events[1].type = "tool:started" /\ events[2].type = "tool:finished"
     /\ events[3].type = "tool:started" /\ events[4].type = "tool:finished"
     /\ \A i \in 2..4 : _tool_signature(events[i].event) = _tool_signature(events[1].event))
    => /\ Len(agent_registry) = 1
       /\ Len(agent_registry[1].v.tools) = 2

\* the whole end-to-end scenario has been processed
E2EProcessed ==
    /\ Len(events) = E2ELength
    /\ \A i \in DOMAIN events :
           events[i].type = E2EScript(sOut4, sResult4)[i].type

\* C2: after the end-to-end scenario the task registry holds exactly one
\* TaskEntry, completed, with exactly one AgentEntry, completed and holding the
\* agent-completed output, with exactly one ToolEntry, completed and holding
\* the tool-finished output.
C2_EndToEndRegistry ==
    E2EProcessed =>
        /\ Len(task_registry) = 1
        /\ task_registry[1].v.status = "completed"
        /\ Len(task_registry[1].v.agents) = 1
        /\ Len(agent_registry) = 1
        /\ agent_registry[1].k = task_registry[1].v.agents[1].v
        /\ agent_registry[1].v.status = "completed"
        /\ agent_registry[1].v.output = events[6].event.output
        /\ Len(agent_registry[1].v.tools) = 1
        /\ agent_registry[1].v.tools[1].v.status = "completed"
        /\ agent_registry[1].v.tools[1].v.output = events[5].event.output

\* C3 as stated: after the end-to-end scenario the status is completed and
\* _progress_fraction is 1.0.
C3_EndToEndProgressFull ==
    E2EProcessed => status = "completed" /\ _progress_fraction = 1000

\* C3 as amended: after the end-to-end scenario, in which one task is
\* completed, the status is completed and _progress_fraction is 1/4.
C3_EndToEndProgressQuarter ==
    E2EProcessed =>
        /\ status = "completed"
        /\ Cardinality(completed_tasks) = 1
        /\ _progress_fraction * EXPECTED_TASKS = 1000

C3_Witness == E2EProcessed /\ status = "completed" /\ final_output = sFinal

\* C4: processing one task:started record twice in a row adds no second
\* TaskEntry: the second application resolves to the entry of the first, whose
\* history then ends with the two records of the two applications.
C4_ReplayIsIdempotent ==
    [][(/\ DrainsAccepted
        /\ Drained.type = "task:started"
        /\ events # <<>>
        /\ Last(events) = Drained)
       => /\ resolved'.task_id = resolved.task_id
          /\ Len(task_registry') = Len(task_registry)
          /\ LET before == DGet(task_registry, resolved.task_id).history
                 after == DGet(task_registry', resolved.task_id).history
             IN  /\ after = Append(before, HistoryEntry(Drained.type, Drained.event))
                 /\ Last(before) = HistoryEntry(Drained.type, Drained.event)]_vars

\* C5: once task:started with task_id X was processed, a later task:completed
\* carrying only a task_name that equals X after trimming and case-folding
\* resolves to the TaskEntry the task:started went to, which is then completed.
C5_AliasConvergence ==
    (/\ events # <<>>
     /\ Last(events).type = "task:completed"
     /\ DOMAIN Last(events).event = {"task_name"})
    => \A i \in 1..(Len(events) - 1) :
           (/\ events[i].type = "task:started"
            /\ "task_id" \in DOMAIN events[i].event
            /\ _normalise_alias(events[i].event.task_id)
                   = _normalise_alias(Last(events).event.task_name))
           => \A j \in DOMAIN task_registry :
                  (\E h \in DOMAIN task_registry[j].v.history :
                       task_registry[j].v.history[h]
                           = HistoryEntry(events[i].type, events[i].event))
                  => /\ task_registry[j].k = resolved.task_id
                     /\ task_registry[j].v.status = "completed"

\* two argument values that are canonically equal: the same value, or two
\* writings of the one object (a JSON text, the object, its keys reordered)
CanonicallyEqual(a, b) == a = b \/ (a \in EquivalentArgs /\ b \in EquivalentArgs)

\* C6: a tool:started with agent_id A and args a, followed by a tool:finished
\* with the same agent_id, canonically equal args and output o, leaves exactly
\* one ToolEntry for the invocation: the tool:finished adds no entry, changes
\* only the entry the tool:started was applied to, and leaves it completed
\* with output o.
C6_ToolCorrelationRoundTrip ==
    [][(/\ DrainsAccepted
        /\ Drained.type = "tool:finished"
        /\ events # <<>>
        /\ Last(events).type = "tool:started"
        /\ Last(events).event.agent_id = Drained.event.agent_id
        /\ CanonicallyEqual(Last(events).event.tool_args, Drained.event.tool_args))
       => /\ resolved'.run_key = resolved.run_key
          /\ LET before == DGet(agent_registry, resolved.run_key).tools
                 after == DGet(agent_registry', resolved.run_key).tools
                 changed == {i \in DOMAIN after : i \notin DOMAIN before \/ after[i] # before[i]}
             IN  /\ Len(after) = Len(before)
                 /\ Cardinality(changed) = 1
                 /\ \A i \in changed :
                        /\ before[i].v.last_event = "tool:started"
                        /\ Last(before[i].v.history)
                               = HistoryEntry("tool:started", Last(events).event)
                        /\ after[i].v.status = "completed"
                        /\ after[i].v.output = Drained.event.output]_vars

\* a tool:started with the object's keys in one order was followed by a
\* tool:finished with the JSON text of the same object, and one entry holds both
C6_Witness ==
    /\ Len(events) >= 2
    /\ events[Len(events) - 1].type = "tool:started"
    /\ events[Len(events) - 1].event.tool_args = ArgsObjBA
    /\ Last(events).type = "tool:finished"
    /\ Last(events).event.tool_args = ArgsJson
    /\ Len(agent_registry) = 1
    /\ Len(agent_registry[1].v.tools) = 1
    /\ agent_registry[1].v.tools[1].v.status = "completed"
    /\ agent_registry[1].v.tools[1].v.output = sOut42

\* the step merges the text new into an entry whose last fragment is the text last
MergesText ==
    /\ DrainsAccepted
    /\ Drained.type = "agent:completed"
    /\ IsStr(Get(Drained.event, "output"))
    /\ Truthy(Get(Drained.event, "output"))
    /\ DHas(agent_registry, resolved'.run_key)
    /\ DGet(agent_registry, resolved'.run_key).output_fragments # <<>>
    /\ IsStr(Last(DGet(agent_registry, resolved'.run_key).output_fragments))

FragmentsBefore == DGet(agent_registry, resolved'.run_key).output_fragments
EntryAfter == DGet(agent_registry', resolved'.run_key)
ReplacesLastFragment ==
    /\ EntryAfter.output_fragments
           = [FragmentsBefore EXCEPT ![Len(FragmentsBefore)] = Drained.event.output]
    /\ EntryAfter.output = _serialise_agent_output(EntryAfter.output_fragments)

\* C7 as stated: when the new text output contains the trimmed text of the
\* last stored fragment, it replaces that fragment in place.
C7_SupersetReplacesLast ==
    [][(/\ MergesText
        /\ Contains(Drained.event.output[2], strip(Last(FragmentsBefore)[2])))
       => ReplacesLastFragment]_vars

\* C7 as amended: when the new text output contains the trimmed text of the
\* last stored fragment, that trimmed text is not empty, and the new output's
\* own trimmed text is not contained in the last fragment, the new output
\* replaces the last fragment in place: the fragment count is unchanged and
\* the visible output is the join of the earlier fragments and the new output.
C7_StrictSupersetReplacesLast ==
    [][(/\ MergesText
        /\ strip(Last(FragmentsBefore)[2]) # <<>>
        /\ Contains(Drained.event.output[2], strip(Last(FragmentsBefore)[2]))
        /\ ~Contains(Last(FragmentsBefore)[2], strip(Drained.event.output[2])))
       => ReplacesLastFragment]_vars

\* 'Hello' then 'Hello world' left the one fragment and the output 'Hello world'
C7_Witness ==
    /\ Len(events) >= 2
    /\ events[Len(events) - 1].type = "agent:completed"
    /\ events[Len(events) - 1].event.output = sHello
    /\ Last(events).type = "agent:completed"
    /\ Last(events).event.output = sHelloWorld
    /\ Len(agent_registry) = 1
    /\ agent_registry[1].v.output_fragments = <<sHelloWorld>>
    /\ agent_registry[1].v.output = sHelloWorld

\* C8: processing a record whose run_id differs from the active run's changes
\* nothing: the event feed, both registries, both alias maps, the completed
\* set, the status, the final output and the error list stay as they are.
C8_OutOfRunIsolation ==
    [][(/\ IsQueue(event_queue)
        /\ event_queue[2] # <<>>
        /\ event_queue' = Queue(Tail(event_queue[2]))
        /\ run_id' = run_id
        /\ Head(event_queue[2]).run_id # run_id)
       => UNCHANGED registry_vars]_vars

\* a record of another run was taken from the queue of a run whose registry
\* is not empty, and the feed holds the accepted records only
C8_Witness ==
    /\ IsQueue(event_queue)
    /\ task_registry # <<>>
    /\ put_count - Len(event_queue[2]) > Len(events)
    /\ \A i \in DOMAIN events : events[i].run_id = run_id

\* C9: while the status is running, _progress_fraction is
\* min(completed / 4, 0.999): 0.999 with 4 or more completed tasks, never 1.0.
C9_ProgressCapWhileRunning ==
    status = "running" =>
        /\ _progress_fraction < 1000
        /\ Cardinality(completed_tasks) >= EXPECTED_TASKS => _progress_fraction = 999
        /\ Cardinality(completed_tasks) < EXPECTED_TASKS
               => _progress_fraction * EXPECTED_TASKS = Cardinality(completed_tasks) * 1000

C9_Witness ==
    /\ status = "running"
    /\ Cardinality(completed_tasks) > EXPECTED_TASKS
    /\ _progress_fraction = 999

\* C10: _progress_fraction is 1.0 only if the run:completed record of the
\* active run has been processed; it is below 1.0 while the status is idle,
\* running or failed.
C10_FullOnlyAfterRunCompleted ==
    /\ _progress_fraction = 1000 => \E i \in DOMAIN events : events[i].type = "run:completed"
    /\ status \in {"idle", "running", "failed"} => _progress_fraction < 1000

\* the engine of the active run was reached and raised: the worker has put
\* its run:failed record
EngineRaised ==
    /\ runs_started > 0
    /\ workers[runs_started] \in {"raising", "raised"}
    /\ enqueued # <<>>
    /\ Last(enqueued).type = "run:failed"

\* C11: for a run whose engine raises once, under every interleaving of the
\* worker (put run:failed, then finish with the exception) and the poller
\* (drain, then check the handle, on every rerun), the failure is never
\* appended to the error list both by the run:failed record and by the failed
\* handle: the list never holds two entries.
C11_FailureRecordedOnce ==
    EngineRaised => Len(errors) <= 1

\* this step is the one call of _check_future_completion that gets past its
\* guard and examines the result of the handle
ExaminesHandle == ~future_processed /\ future_processed'

\* the worker of the active run ended with an exception and put no run:failed
\* record: it crashed before its instrumented section
CrashedUninstrumented ==
    /\ crew_future = Future("raised")
    /\ \A i \in DOMAIN enqueued : enqueued[i].type # "run:failed"

\* C12: when the worker ended with an exception without having enqueued a
\* run:failed record, the poller's examination of the handle marks the run
\* failed and appends the exception to the error list; future_processed goes
\* from false to true at that examination and stays true until the next
\* _start_run, so the handle is examined at most once per run.
C12_CrashMarkedFailedOnce ==
    [][/\ (ExaminesHandle /\ CrashedUninstrumented)
           => /\ status' = "failed"
              /\ errors' = Append(errors, sBoom)
       /\ ExaminesHandle => crew_future \in {Future("returned"), Future("raised")}
       /\ (future_processed /\ ~future_processed')
           => /\ runs_started' = runs_started + 1
              /\ crew_future' = Future("running")]_vars

\* the crew could not be constructed, nothing was enqueued, and the poller
\* has marked the run failed with the exception
C12_Witness ==
    /\ runs_started > 0
    /\ workers[runs_started] = "raised"
    /\ enqueued = <<>>
    /\ future_processed
    /\ status = "failed"
    /\ errors = <<sBoom>>

\* the worker handle of the active run is done
HandleDone == crew_future \in {Future("returned"), Future("raised")}

\* C13: under fair scheduling of the poller, a run whose worker handle is
\* done does not stay running: its status eventually is completed or failed;
\* the status becomes completed only by processing a run:completed record,
\* and failed only by processing a run:failed record or by examining the
\* failed handle.
C13_TerminatedRunSettles ==
    /\ (status = "running" /\ HandleDone) ~> (status \in {"completed", "failed"})
    /\ [][(status # "completed" /\ status' = "completed")
             => (DrainsAccepted /\ Drained.type = "run:completed")]_vars
    /\ [][(status # "failed" /\ status' = "failed")
             => \/ DrainsAccepted /\ Drained.type = "run:failed"
                \/ ExaminesHandle /\ crew_future = Future("raised")]_vars

\* the handle was examined while the run:completed record was still queued,
\* and the run settled as completed when the record was processed
C13_Witness ==
    /\ crew_future = Future("returned")
    /\ future_processed
    /\ status = "completed"
    /\ events # <<>>
    /\ Last(events).type = "run:completed"
    /\ Len(events) = Len(enqueued)

\* serialising the event fails: to_json raises and the fallback raises too
SerialisingFails(event) == ~event.to_json.ok /\ ~event.to_serializable.ok

\* enriching the event fails: reading its task or its agent raises
EnrichingFails(event) == ~event.task.ok \/ ~event.agent.ok

\* text is the repr of an exception that serialising or enriching raises
IsFailureText(event, text) ==
    \/ SerialisingFails(event) /\ text = event.to_serializable.value
    \/ ~event.task.ok /\ text = event.task.value
    \/ ~event.agent.ok /\ text = event.agent.value

\* the record is the one the claim describes for the handler of event_type
\* called with event at clock reading now
DescribedRecord(rec, event_type, event, now) ==
    /\ DOMAIN rec = {"run_id", "type", "event"}
    /\ rec.run_id = run_id
    /\ IF SerialisingFails(event) \/ EnrichingFails(event)
       THEN /\ rec.type = "listener:error"
            /\ DOMAIN rec.event = {"error", "event_type", "timestamp"}
            /\ IsFailureText(event, rec.event.error)
            /\ rec.event.event_type = event.class
            /\ rec.event.timestamp = now
       ELSE /\ rec.type = event_type
            /\ rec.event = _enrich_event(event, _serialise_event(event).value).value

\* C14: every invocation of a listener handler pushes exactly one record and
\* raises nothing: when serialising or enriching the event fails, the record
\* has type listener:error and carries the exception text, the event's class
\* name and a timestamp; otherwise it has the handler's event type and the
\* enriched payload.
C14_HandlerPushesOneRecord ==
    /\ [](\A h \in Handlers, now \in ClockReadings :
             \A j \in DOMAIN JsonOutcomes, f \in DOMAIN FallbackOutcomes,
                t \in DOMAIN TaskOutcomes, a \in DOMAIN AgentOutcomes :
                 DescribedRecord(HandlerRecord(h[1], ListenerEvent(h[2], j, f, t, a), now),
                                 h[1], ListenerEvent(h[2], j, f, t, a), now))
    /\ [][put_count' # put_count /\ runs_started' = runs_started
             => /\ put_count' = put_count + 1
                /\ Len(event_queue'[2]) = Len(event_queue[2]) + 1
                /\ SubSeq(event_queue'[2], 1, Len(event_queue[2])) = event_queue[2]]_vars

\* an event whose serialisation failed was handled: its listener:error record
\* went through the queue into the event feed and touched no registry
C14_Witness ==
    /\ Len(events) = 1
    /\ events[1].type = "listener:error"
    /\ events[1].event.error = sTypeError
    /\ events[1].event.event_type = sToolUsageErrorEvent
    /\ task_registry = <<>>
    /\ agent_registry = <<>>
    /\ status = "running"

\* the places in enqueued of the run-level records of the active run
RunLevelRecords ==
    {i \in DOMAIN enqueued :
        enqueued[i].run_id = run_id /\ enqueued[i].type \in {"run:completed", "run:failed"}}

\* the worker of the active run, which stays the same over this step
Worker == workers[runs_started]
SameRun == runs_started > 0 /\ runs_started' = runs_started

\* C15: a worker that reached crew.run() enqueues exactly one run-level
\* record, and it is the last record it enqueues for the run: run:failed with
\* the exception text when run() raises, after which the handle completes
\* with the exception; run:completed with the result when run() returns,
\* after which the handle completes normally; never both.
C15_OneRunLevelRecordLast ==
    /\ [](/\ Cardinality(RunLevelRecords) <= 1
          /\ \A i \in RunLevelRecords : i = Len(enqueued)
          /\ runs_started > 0 =>
                 /\ Worker \in {"submitted", "running"} => RunLevelRecords = {}
                 /\ Worker \in {"raising", "raised"} /\ enqueued # <<>>
                        => Last(enqueued) = Payload("run:failed", [error |-> sBoom])
                 /\ Worker \in {"returning", "returned"}
                        => Last(enqueued) = Payload("run:completed", [output |-> sFinal])
                 /\ crew_future = Future("raised") <=> Worker = "raised"
                 /\ crew_future = Future("returned") <=> Worker = "returned")
    /\ [][SameRun =>
             /\ enqueued' # enqueued => Worker = "running" /\ Len(enqueued') = Len(enqueued) + 1
             /\ (Worker = "running" /\ Worker' # "running")
                    => /\ Worker' \in {"raising", "returning"}
                       /\ RunLevelRecords' = {Len(enqueued')}
                       /\ crew_future' = Future("running")
             /\ (Worker = "raising" /\ Worker' # Worker)
                    => Worker' = "raised" /\ enqueued' = enqueued
             /\ (Worker = "returning" /\ Worker' # Worker)
                    => Worker' = "returned" /\ enqueued' = enqueued
             /\ Worker \in Finished => Worker' = Worker]_vars

\* run() raised after the listener had enqueued two records: run:failed is
\* the third and last record, and the handle is done with the exception
C15_Witness ==
    /\ runs_started > 0
    /\ workers[runs_started] = "raised"
    /\ crew_future = Future("raised")
    /\ Len(enqueued) = 3
    /\ enqueued[3].type = "run:failed"
    /\ enqueued[3].event.error = sBoom

\* the records of seq that carry the id of the active run
OfActiveRun(seq) == SelectSeq(seq, LAMBDA record : record.run_id = run_id)

\* C16: under every interleaving of the worker's pushes and the poller's
\* drains, the event feed of the active run is a prefix of the sequence of
\* records the worker enqueued for that run, in the same order, and the
\* records still queued are the rest of that sequence: none is applied
\* twice, skipped, or applied before one enqueued earlier.
C16_FeedIsPrefixOfEnqueued ==
    IsQueue(event_queue) =>
        /\ Len(events) <= Len(OfActiveRun(enqueued))
        /\ events = SubSeq(OfActiveRun(enqueued), 1, Len(events))
        /\ events \o OfActiveRun(event_queue[2]) = OfActiveRun(enqueued)

\* the worker pushed three records while the poller drained: two are in the
\* feed and the third is still queued
C16_Witness ==
    /\ IsQueue(event_queue)
    /\ Len(enqueued) = 3
    /\ Len(events) = 2
    /\ events[1] # events[2]
    /\ event_queue[2] = <<enqueued[3]>>

\* this step is a call of _start_run
StartsRun == runs_started' = runs_started + 1

\* C17: right after _start_run, whatever the state before, both registries,
\* both alias maps, the event feed, the completed-task set and the error list
\* are empty, the final output is unset, future_processed is false, the
\* status is running, the run_id is one no run had before and the queue is a
\* new empty one; no worker of an earlier run enqueues from then on, and no
\* record of another run is ever in the feed of the active run.
C17_StartRunResets ==
    /\ [][StartsRun =>
             /\ task_registry' = <<>> /\ agent_registry' = <<>>
             /\ task_alias_map' = <<>> /\ agent_alias_map' = <<>>
             /\ events' = <<>> /\ completed_tasks' = {} /\ errors' = <<>>
             /\ final_output' = None
             /\ future_processed' = FALSE
             /\ status' = "running"
             /\ run_id' \notin {run_id} \cup {Uuid(n) : n \in 1..uuid_count}
             /\ event_queue' = Queue(<<>>)
             /\ enqueued' = <<>>]_vars
    /\ [](/\ \A n \in 1..(runs_started - 1) : workers[n] \notin {"submitted", "running"}
          /\ \A i \in DOMAIN events : events[i].run_id = run_id
          /\ run_id \in {None} \cup {Uuid(n) : n \in 1..uuid_count})

\* a second run was started while the worker of the failed first run was
\* still unwinding and its run:failed record had been processed: the session
\* is that of a fresh run
C17_Witness ==
    /\ runs_started = 2
    /\ workers = <<"raising", "submitted">>
    /\ status = "running"
    /\ events = <<>> /\ errors = <<>> /\ task_registry = <<>>
    /\ event_queue = Queue(<<>>)
    /\ ~future_processed

\* the workers that are executing the engine: inside crew.run()
ExecutingEngine == {n \in DOMAIN workers : workers[n] = "running"}

\* C18: at most one run is in flight: a run is started only when the status
\* is not running, and never are two workers executing the engine at once,
\* also not when a run is started right after a run:failed record was
\* processed, while the failed worker is still unwinding; when a run is
\* started no worker of an earlier run is still to execute the engine.
C18_SingleFlight ==
    /\ [](Cardinality(ExecutingEngine) <= 1)
    /\ [][StartsRun =>
             /\ status # "running"
             /\ \A n \in DOMAIN workers : workers[n] \notin {"submitted", "running"}]_vars

\* the engine of the second run executes while the worker of the failed first
\* run, whose run:failed record was processed, has not yet left its thread
C18_Witness ==
    /\ runs_started = 2
    /\ workers = <<"raising", "running">>
    /\ ExecutingEngine = {2}
    /\ status = "running"

\* this step records the failure of the run: it processes a run:failed
\* record, or it marks the run failed from the worker handle
ProcessesRunFailed == DrainsAccepted /\ Drained.type = "run:failed"
MarksFailedFromHandle == ExaminesHandle /\ crew_future = Future("raised")

\* C19: a run's failure discards nothing: processing a run:failed record, or
\* marking the run failed from the worker handle, leaves both registries,
\* both alias maps, the completed-task set and the final output as they are;
\* the event feed keeps its records, with the run:failed record appended when
\* one is processed.
C19_FailureKeepsRegistry ==
    [][/\ (ProcessesRunFailed \/ MarksFailedFromHandle)
           => UNCHANGED <<task_registry, agent_registry, task_alias_map, agent_alias_map,
                          completed_tasks, final_output>>
       /\ ProcessesRunFailed => events' = Append(events, Drained) /\ status' = "failed"
       /\ (MarksFailedFromHandle /\ ~ProcessesRunFailed) => events' = events /\ status' = "failed"]_vars

\* a run with a task, an agent linked to it and a completed task has failed,
\* by its run:failed record: everything is still there
C19_Witness ==
    /\ status = "failed"
    /\ Len(events) = 3
    /\ events[3].type = "run:failed"
    /\ Len(task_registry) = 1
    /\ task_registry[1].v.agents # <<>>
    /\ agent_registry # <<>>

\* a run with a completed task has been marked failed from its handle, its
\* run:failed record still queued: everything is still there
C19_WitnessFromHandle ==
    /\ status = "failed"
    /\ future_processed
    /\ IsQueue(event_queue)
    /\ event_queue[2] # <<>>
    /\ Len(events) = 2
    /\ completed_tasks # {}
    /\ task_registry # <<>>

\* C20: for every TaskEntry T and every key k of T.agents, the AgentEntry
\* stored there has run_key k and task_id T.task_id: no agent entry is held
\* in the agents map of a task other than the one its own task_id names.
C20_AgentsHeldByTheirTask ==
    \A i \in DOMAIN task_registry :
        \A j \in DOMAIN task_registry[i].v.agents :
            LET held == task_registry[i].v.agents[j]
            IN  /\ DHas(agent_registry, held.v)
                /\ DGet(agent_registry, held.v).run_key = held.k
                /\ DGet(agent_registry, held.v).task_id = task_registry[i].k

\* the history records of a TaskEntry whose event carried field with value
NamedBy(entry, field, value) ==
    {h \in DOMAIN entry.history :
        /\ field \in DOMAIN entry.history[h].summary
        /\ entry.history[h].summary[field] = value}

\* C21: between two _start_run calls no TaskEntry is removed or re-keyed (the
\* registry keeps every key it has, in place, and only gains keys), and in
\* every state the entry stored under key k has task_id k, also after events
\* that name the task through another alias or another raw task_id value.
C21_TaskIdsOnlyGrow ==
    /\ [][~StartsRun =>
             /\ Len(task_registry') >= Len(task_registry)
             /\ \A i \in DOMAIN task_registry : task_registry'[i].k = task_registry[i].k]_vars
    /\ [](\A i \in DOMAIN task_registry :
             /\ task_registry[i].v.task_id = task_registry[i].k
             /\ \A j \in DOMAIN task_registry : task_registry[j].k = task_registry[i].k => j = i)

\* TaskEntry T1 took an event whose raw task_id is T2 and one that names it
\* by the padded, differently cased task_name only, beside another entry
C21_Witness ==
    /\ Len(task_registry) >= 2
    /\ \E i \in DOMAIN task_registry :
           /\ task_registry[i].k = sT1
           /\ NamedBy(task_registry[i].v, "task_id", sT2) # {}
           /\ NamedBy(task_registry[i].v, "task_name", sT1Padded) # {}

\* two events carry the same agent identifiers
SameAgentIdentifiers(a, b) ==
    \A field \in {"agent_id", "source_fingerprint", "agent_role"} : Get(a, field) = Get(b, field)

\* C22: agent events that carry the same agent identifiers and are resolved
\* to two different tasks (here every event names its task by its task_id,
\* which no other task has as an alias) are never in the history of one
\* AgentEntry: they went to two entries, stored under two run_keys; and a
\* step that processes an event leaves every AgentEntry other than the one
\* the event was resolved to as it was.
C22_AgentIdentityTaskQualified ==
    /\ [](\A i \in DOMAIN agent_registry :
             /\ agent_registry[i].v.run_key = agent_registry[i].k
             /\ \A g, h \in DOMAIN agent_registry[i].v.history :
                    LET a == agent_registry[i].v.history[g].summary
                        b == agent_registry[i].v.history[h].summary
                    IN  SameAgentIdentifiers(a, b) => a.task_id = b.task_id)
    /\ [][DrainsAccepted =>
             \A i \in DOMAIN agent_registry :
                 agent_registry[i].k # resolved'.run_key
                 => agent_registry'[i] = agent_registry[i]]_vars

\* the fields of an event that name its task, and the normalised aliases
\* an event carries in them
TaskAliasFields == {"task_id", "id", "name", "task_name"}
AliasesOf(event_data) ==
    {_normalise_alias(event_data[field]) : field \in TaskAliasFields \cap DOMAIN event_data}
        \ {None}

\* C23: between two _start_run calls an alias of task_alias_map is never
\* removed or pointed at another task; and when a record whose only task
\* alias is a is processed, it resolves to every TaskEntry that already took
\* an event carrying a (so to the one task a was first resolved to).
C23_AliasNeverRepointed ==
    /\ [][~StartsRun =>
             \A a \in DOMAIN task_alias_map :
                 a \in DOMAIN task_alias_map' /\ task_alias_map'[a] = task_alias_map[a]]_vars
    /\ [][(/\ DrainsAccepted
           /\ Cardinality(TaskAliasFields \cap DOMAIN Drained.event) = 1
           /\ AliasesOf(Drained.event) # {})
          => \A i \in DOMAIN task_registry :
                 (\E h \in DOMAIN task_registry[i].v.history :
                      AliasesOf(Drained.event)
                          \subseteq AliasesOf(task_registry[i].v.history[h].summary))
                 => resolved'.task_id = task_registry[i].k]_vars

\* the record names its task by its description and by nothing else
DescribesTaskOnly(event_data) ==
    /\ "description" \in DOMAIN event_data
    /\ TaskAliasFields \cap DOMAIN event_data = {}

\* C24: a record whose only task alias is its description resolves to a
\* task, whatever its kind; its normalised description is then an alias of
\* that task in task_alias_map; and it resolves to the TaskEntry that already
\* took an event carrying the same description.
C24_DescriptionIsAlias ==
    [][(DrainsAccepted /\ DescribesTaskOnly(Drained.event))
       => /\ resolved'.task_id # None
          /\ _normalise_alias(Drained.event.description) \in DOMAIN task_alias_map'
          /\ task_alias_map'[_normalise_alias(Drained.event.description)] = resolved'.task_id
          /\ \A i \in DOMAIN task_registry :
                 NamedBy(task_registry[i].v, "description", Drained.event.description) # {}
                 => resolved'.task_id = task_registry[i].k]_vars

\* the status the claim gives a task event
StatusOfTaskEvent(event_type) ==
    CASE event_type = "task:started" -> "running"
      [] event_type = "task:completed" -> "completed"
      [] event_type = "task:failed" -> "failed"

\* the task:* records among the events a TaskEntry took, oldest first
TaskEventsOf(entry) ==
    SelectSeq(entry.history,
              LAMBDA h : h.type \in {"task:started", "task:completed", "task:failed"})

\* C25: in every state the status of a TaskEntry is the mapping (started to
\* running, completed to completed, failed to failed) of the last task:*
\* event it took, or pending when it took none; and a step that processes an
\* agent, tool, crew or run record changes the status of no TaskEntry and
\* appends the record to the history of the TaskEntry it resolved to.
C25_LastTaskEventDecidesStatus ==
    /\ [](\A i \in DOMAIN task_registry :
             LET entry == task_registry[i].v
             IN  entry.status = IF TaskEventsOf(entry) = <<>> THEN "pending"
                                ELSE StatusOfTaskEvent(Last(TaskEventsOf(entry)).type))
    /\ [][(/\ DrainsAccepted
           /\ Drained.type \notin {"task:started", "task:completed", "task:failed"})
          => /\ \A i \in DOMAIN task_registry :
                    task_registry'[i].v.status = task_registry[i].v.status
             /\ resolved'.task_id # None
                 => LET before == IF DHas(task_registry, resolved'.task_id)
                                  THEN DGet(task_registry, resolved'.task_id).history
                                  ELSE <<>>
                    IN  DGet(task_registry', resolved'.task_id).history
                            = Append(before, HistoryEntry(Drained.type, Drained.event))]_vars

\* TaskEntry T1 failed after it had been running, with an event of its agent
\* processed after its last task event
C25_Witness ==
    \E i \in DOMAIN task_registry :
        LET entry == task_registry[i].v
        IN  /\ entry.status = "failed"
            /\ Len(TaskEventsOf(entry)) = 2
            /\ TaskEventsOf(entry)[1].type = "task:started"
            /\ Last(entry.history).type = "agent:started"

\* the AgentEntries of task, as positions of the agent registry
EntriesOfTask(task) == {i \in DOMAIN agent_registry : agent_registry[i].v.task_id = task}

\* the event names an AgentEntry of task by a registered alias
MatchesAgentAlias(event_data, task) ==
    /\ task \in DOMAIN agent_alias_map
    /\ \E field \in {"source_fingerprint", "agent_id", "agent_key", "agent_role"} \cap DOMAIN event_data :
           /\ _normalise_alias(event_data[field]) \in DOMAIN agent_alias_map[task]
           /\ DHas(agent_registry, agent_alias_map[task][_normalise_alias(event_data[field])])

\* the event names the entry by its stored agent_id, fingerprint or role
MatchesAgentField(event_data, entry) ==
    \E field \in {"agent_id", "source_fingerprint", "agent_role"} \cap DOMAIN event_data :
        Truthy(event_data[field]) /\ entry[field] = event_data[field]

\* this step processes an agent or tool record resolved to task which
\* matches no alias and no entry of the task while the task has exactly one
FallsBackToOnlyEntry(task) ==
    /\ DrainsAccepted
    /\ Drained.type \in {"agent:started", "agent:completed", "agent:error",
                         "tool:started", "tool:finished", "tool:error"}
    /\ resolved'.task_id = task
    /\ Cardinality(EntriesOfTask(task)) = 1
    /\ ~MatchesAgentAlias(Drained.event, task)
    /\ \A i \in EntriesOfTask(task) : ~MatchesAgentField(Drained.event, agent_registry[i].v)

\* C26: such a record is attributed to the one AgentEntry of its task and no
\* AgentEntry is created: the registry keeps its keys, the record is the
\* last of that entry's history, and the agent_id and the role the record
\* carries are the entry's afterwards, whatever they were before.
C26_SingleAgentFallback ==
    [][\A task \in {sT1, sT2} :
          FallsBackToOnlyEntry(task)
          => \A i \in EntriesOfTask(task) :
                 /\ resolved'.run_key = agent_registry[i].k
                 /\ DKeys(agent_registry') = DKeys(agent_registry)
                 /\ agent_registry'[i].v.history
                        = Append(agent_registry[i].v.history,
                                 HistoryEntry(Drained.type, Drained.event))
                 /\ Truthy(Get(Drained.event, "agent_id"))
                        => agent_registry'[i].v.agent_id = Drained.event.agent_id
                 /\ Truthy(Get(Drained.event, "agent_role"))
                        => agent_registry'[i].v.agent_role = Drained.event.agent_role]_vars

\* the entry created for agent A of T1 took the event of agent B, whose id
\* and role it now carries, and T1 still has that one entry
C26_Witness ==
    /\ Cardinality(EntriesOfTask(sT1)) = 1
    /\ \E i \in EntriesOfTask(sT1) :
           /\ agent_registry[i].k = Str(<<"T", "1", ":", "A">>)
           /\ agent_registry[i].v.agent_id = sAgentB
           /\ agent_registry[i].v.agent_role = sReviewer
           /\ Len(agent_registry[i].v.history) = 2

\* this step processes an agent or tool record for which no task is
\* resolved and whose own task_id field is missing or empty
ProcessesTasklessAgentEvent ==
    /\ DrainsAccepted
    /\ Drained.type \in {"agent:started", "agent:completed", "agent:error",
                         "tool:started", "tool:finished", "tool:error"}
    /\ resolved'.task_id = None
    /\ ~Truthy(Get(Drained.event, "task_id"))

\* C27: such a record creates and updates no AgentEntry and no ToolEntry:
\* the agent registry, the agent alias map and the task registry (so the
\* agents map of every task) are unchanged by it and it is resolved to no
\* AgentEntry.
C27_NoAgentWithoutTask ==
    [][ProcessesTasklessAgentEvent
       => /\ agent_registry' = agent_registry
          /\ agent_alias_map' = agent_alias_map
          /\ task_registry' = task_registry
          /\ resolved'.run_key = None]_vars

\* the last record processed is an event of agent A that names no task,
\* while task T1 has an AgentEntry of agent A
C27_Witness ==
    /\ events # <<>>
    /\ Last(events).type \in {"agent:started", "tool:started"}
    /\ "task_id" \notin DOMAIN Last(events).event
    /\ resolved = Unresolved
    /\ \E i \in EntriesOfTask(sT1) : agent_registry[i].v.agent_id = sAgentA

\* the merge of this step leaves the fragments and the visible output of
\* the entry as they were
MergeChangesNothing ==
    /\ EntryAfter.output_fragments = FragmentsBefore
    /\ EntryAfter.output = DGet(agent_registry, resolved'.run_key).output

\* this step merges the output the record processed just before it merged
MergesSameAgain ==
    /\ MergesText
    /\ events # <<>>
    /\ Last(events).type = "agent:completed"
    /\ Get(Last(events).event, "output") = Drained.event.output

\* C28 as stated: merging a text equal to the last stored fragment, or one
\* whose trimmed content is contained in the last stored text fragment,
\* leaves the fragment list and the visible output unchanged; so does
\* merging again the fragment that was merged just before.
C28_MergeAbsorbsSubset ==
    /\ [][(/\ MergesText
           /\ \/ Last(FragmentsBefore) = Drained.event.output
              \/ Contains(Last(FragmentsBefore)[2], strip(Drained.event.output[2])))
          => MergeChangesNothing]_vars
    /\ [][MergesSameAgain => MergeChangesNothing]_vars

\* C28 as amended: the same, for a text whose trimmed content is not empty.
C28_MergeAbsorbsNonBlankSubset ==
    /\ [][(/\ MergesText
           /\ \/ Last(FragmentsBefore) = Drained.event.output
              \/ /\ strip(Drained.event.output[2]) # <<>>
                 /\ Contains(Last(FragmentsBefore)[2], strip(Drained.event.output[2])))
          => MergeChangesNothing]_vars
    /\ [][MergesSameAgain => MergeChangesNothing]_vars

\* 'Hello world' then 'world', merged twice, left the one fragment and the
\* output 'Hello world'
C28_Witness ==
    /\ Len(events) = 3
    /\ \A i \in 1..3 : events[i].type = "agent:completed"
    /\ events[1].event.output = sHelloWorld
    /\ events[2].event.output = sWorld
    /\ events[3].event.output = sWorld
    /\ Len(agent_registry) = 1
    /\ agent_registry[1].v.output_fragments = <<sHelloWorld>>
    /\ agent_registry[1].v.output = sHelloWorld

\* the last event applied to the ToolEntry is tool:finished or tool:error
Terminated(tool_entry) == tool_entry.last_event \in {"tool:finished", "tool:error"}

\* C29: in every state, for every AgentEntry and every ToolEntry of it whose
\* last event is tool:finished or tool:error, no signature of the agent's
\* active-signature map maps to the key of that ToolEntry, whatever the
\* signature of the terminal event was.
C29_TerminalClearsActiveSignature ==
    \A i \in DOMAIN agent_registry :
        \A j \in DOMAIN agent_registry[i].v.tools :
            LET tool_entry == agent_registry[i].v.tools[j].v
                active_map == agent_registry[i].v.tool_active_map
            IN  Terminated(tool_entry)
                => \A signature \in DOMAIN active_map :
                       active_map[signature] # tool_entry.key

\* C30: in every state, a ToolEntry whose last event is tool:finished or
\* tool:error, and carried a timestamp, has that timestamp as completed_at,
\* whether or not the event carried an output or an error value.
C30_TerminalRecordsCompletionTime ==
    \A i \in DOMAIN agent_registry :
        \A j \in DOMAIN agent_registry[i].v.tools :
            LET tool_entry == agent_registry[i].v.tools[j].v
            IN  (Terminated(tool_entry) /\ Last(tool_entry.history).timestamp # None)
                => tool_entry.completed_at = Last(tool_entry.history).timestamp

\* the step applies a tool event to the AgentEntry it resolved
AppliesToolEvent ==
    /\ DrainsAccepted
    /\ Drained.type \in ToolTypes
    /\ resolved'.run_key # None

\* no ToolEntry of tools matches the event: none has its signature, none that
\* is pending or running has its tool name, or its agent and its arguments
NoEntryMatches(tools, event_data) ==
    \A i \in DOMAIN tools :
        LET tool_entry == tools[i].v
            signature == _tool_signature(event_data)
        IN  /\ tool_entry.signature # signature
            /\ tool_entry.status \in {"pending", "running"}
                   => /\ tool_entry.name # Or(Get(event_data, "tool_name"), Str(<<>>))
                      /\ ~(/\ tool_entry.agent_identifier = signature[1]
                           /\ tool_entry.args_repr = signature[3])

\* C31: for every AgentEntry, after any sequence of tool events, the keys of
\* its tools map are exactly tool-1 .. tool-n with n its tool_sequence, and
\* every ToolEntry's key field is the key it is stored under; between two
\* _start_run calls no AgentEntry loses a ToolEntry, a tool event changes the
\* tools of the one AgentEntry it was resolved to, and that entry gains a
\* ToolEntry, numbered next, only when no existing ToolEntry matched the event.
C31_ToolKeysAreSequential ==
    [][~StartsRun =>
        /\ \A i \in DOMAIN agent_registry' :
               LET agent_entry == agent_registry'[i].v
               IN  /\ Len(agent_entry.tools) = agent_entry.tool_sequence
                   /\ \A j \in DOMAIN agent_entry.tools :
                          /\ agent_entry.tools[j].k = ToolKey(j)
                          /\ agent_entry.tools[j].v.key = agent_entry.tools[j].k
        /\ \A i \in DOMAIN agent_registry :
               LET run_key == agent_registry[i].k
                   before == agent_registry[i].v.tools
               IN  /\ DHas(agent_registry', run_key)
                   /\ DKeys(before) \subseteq DKeys(DGet(agent_registry', run_key).tools)
                   /\ DGet(agent_registry', run_key).tools # before
                          => AppliesToolEvent /\ resolved'.run_key = run_key
                   /\ Len(DGet(agent_registry', run_key).tools) > Len(before)
                          => /\ Len(DGet(agent_registry', run_key).tools) = Len(before) + 1
                             /\ NoEntryMatches(before, Drained.event)]_vars

\* two agents called the tool; the first called it again with other
\* arguments after its first call had ended, and holds tool-1 and tool-2
C31_Witness ==
    /\ Len(agent_registry) = 2
    /\ Len(agent_registry[1].v.tools) = 2
    /\ agent_registry[1].v.tool_sequence = 2
    /\ agent_registry[1].v.tools[1].v.status = "completed"
    /\ agent_registry[1].v.tools[2].v.key = ToolKey(2)
    /\ Len(agent_registry[2].v.tools) = 1

\* json.dumps of the object {"b": 2, "a": 1} with sorted keys
sCanonicalObject == Str(<<"{", "\"", "a", "\"", ":", " ", "1", ",", " ", "\"", "b", "\"", ":", " ", "2", "}">>)

\* the args representation the claim gives the arguments of a tool event
CanonicalArgs(tool_args) ==
    IF tool_args \in EquivalentArgs THEN sCanonicalObject
    ELSE IF tool_args \in {sExpr, sExprPadded} THEN sExpr
    ELSE Str(<<>>)

\* C32: every tool event applied to an AgentEntry, whatever its arguments,
\* creates or updates exactly one ToolEntry and leaves that entry with the
\* canonical text of the arguments: the one sorted-key JSON text for an
\* object, the object with its keys reordered and a string holding its JSON;
\* the trimmed raw text for a string that is no JSON; the empty string for
\* absent or blank arguments.
C32_ArgsCanonicalised ==
    [][AppliesToolEvent =>
        LET tool_args == Get(Drained.event, "tool_args")
            before == IF DHas(agent_registry, resolved'.run_key)
                      THEN DGet(agent_registry, resolved'.run_key).tools ELSE <<>>
            after == DGet(agent_registry', resolved'.run_key).tools
            changed == {i \in DOMAIN after : i \notin DOMAIN before \/ after[i] # before[i]}
        IN  /\ tool_args \in EquivalentArgs \cup {sExpr, sExprPadded, sBlank, None}
            /\ Cardinality(changed) = 1
            /\ \A i \in changed :
                   /\ after[i].v.args_repr = CanonicalArgs(tool_args)
                   /\ after[i].v.last_event = Drained.type
                   /\ Last(after[i].v.history) = HistoryEntry(Drained.type, Drained.event)]_vars

\* a call with the padded expression was finished by an event carrying the
\* bare expression, and the one entry holds the trimmed text
C32_Witness ==
    /\ Len(events) = 2
    /\ events[1].type = "tool:started"
    /\ events[1].event.tool_args = sExprPadded
    /\ events[2].type = "tool:finished"
    /\ Get(events[2].event, "tool_args") = sExpr
    /\ Len(agent_registry) = 1
    /\ Len(agent_registry[1].v.tools) = 1
    /\ agent_registry[1].v.tools[1].v.args_repr = sExpr
    /\ agent_registry[1].v.tools[1].v.status = "completed"

\* the step applies an agent or tool event to the AgentEntry it resolved
AppliesAgentOrToolEvent ==
    /\ DrainsAccepted
    /\ Drained.type \in AgentTypes \cup ToolTypes
    /\ resolved'.run_key # None

\* C33: with task ids and agent aliases that contain no ':', no two
\* AgentEntries of the agent registry have the same task_id, and an agent or
\* tool event applied to an AgentEntry of a task that already had one is
\* applied to that one, whichever agent the event names: the registry gains
\* no entry.
C33_OneAgentEntryPerTask ==
    [][~StartsRun =>
        /\ \A i, j \in DOMAIN agent_registry' :
               agent_registry'[i].v.task_id = agent_registry'[j].v.task_id => i = j
        /\ AppliesAgentOrToolEvent =>
               \A i \in DOMAIN agent_registry :
                   agent_registry[i].v.task_id
                       = DGet(agent_registry', resolved'.run_key).task_id
                   => /\ resolved'.run_key = agent_registry[i].k
                      /\ Len(agent_registry') = Len(agent_registry)]_vars

\* agent A started on T1 and on T2, then agent B acted on T1: the registry
\* holds the two entries of A, and the entry of T1 took the event of B
C33_Witness ==
    /\ Len(events) = 3
    /\ Last(events).type = "agent:started"
    /\ Get(Last(events).event, "agent_id") = sAgentB
    /\ Len(agent_registry) = 2
    /\ agent_registry[1].k = Str(<<"T", "1", ":", "A">>)
    /\ agent_registry[2].k = Str(<<"T", "2", ":", "A">>)
    /\ resolved.run_key = agent_registry[1].k

\* the places in the history of a ToolEntry of the tool:started events
StartsOf(tool_entry) ==
    {h \in DOMAIN tool_entry.history : tool_entry.history[h].type = "tool:started"}

\* C34: two tool:started events applied to one agent with different
\* signatures are never merged into one ToolEntry, also when they name the
\* same tool and the first invocation is still running: in every state the
\* tool:started events in the history of one ToolEntry have one signature.
C34_DifferentArgsNeverMerged ==
    \A i \in DOMAIN agent_registry :
        \A j \in DOMAIN agent_registry[i].v.tools :
            LET tool_entry == agent_registry[i].v.tools[j].v
            IN  \A g, h \in StartsOf(tool_entry) :
                    _tool_signature(tool_entry.history[g].summary)
                        = _tool_signature(tool_entry.history[h].summary)

\* C35: in every state every element of the completed-task set is a key of
\* the task registry, so the event-kind fallback key is never stored; between
\* two _start_run calls the set only grows, and _progress_fraction does not
\* decrease over a step that leaves the status running.
C35_CompletedTasksAreRegistered ==
    /\ [](completed_tasks \subseteq DKeys(task_registry))
    /\ [][~StartsRun =>
             /\ completed_tasks \subseteq completed_tasks'
             /\ (status = "running" /\ status' = "running")
                    => _progress_fraction' >= _progress_fraction]_vars

\* two task:completed events, one of them naming no task, were processed:
\* both completed tasks are registered and the running run is half done
C35_Witness ==
    /\ status = "running"
    /\ Cardinality(completed_tasks) = 2
    /\ sT1 \in completed_tasks
    /\ \E i \in DOMAIN events :
           events[i].type = "task:completed" /\ "task_id" \notin DOMAIN events[i].event
    /\ _progress_fraction * 2 = 1000

\* C36: within one run a terminal status is absorbing: over every step that
\* is no _start_run a completed status stays completed and a failed status
\* stays failed; and in every state the status is failed exactly when the
\* error list is not empty.
C36_TerminalStatusAbsorbing ==
    /\ [][~StartsRun =>
             /\ status = "completed" => status' = "completed"
             /\ status = "failed" => status' = "failed"]_vars
    /\ [](status = "failed" <=> errors # <<>>)

\* the engine raised: the handle was examined, the run:failed record was
\* processed after it, and the run stayed failed
C36_Witness ==
    /\ status = "failed"
    /\ future_processed
    /\ crew_future = Future("raised")
    /\ events # <<>>
    /\ Last(events).type = "run:failed"
    /\ errors # <<>>
    /\ IsQueue(event_queue)
    /\ event_queue[2] = <<>>

\* C37: every AgentEntry of the agent registry is reachable from the task
\* tree: the task registry has a TaskEntry for the entry's task_id, and the
\* agents map of that TaskEntry contains the entry's run_key; no AgentEntry
\* exists for a task without a TaskEntry.
C37_AgentEntriesInTaskTree ==
    \A i \in DOMAIN agent_registry :
        /\ DHas(task_registry, agent_registry[i].v.task_id)
        /\ DHas(DGet(task_registry, agent_registry[i].v.task_id).agents,
                agent_registry[i].k)

====
